---- MODULE Spec2Model ----
(***************************************************************************)
(* Wall Bounce: the dialogue orchestration of                              *)
(* src/src/services/wall-bounce.js (WallBounceService.conductWallBounce)   *)
(* over the input normalizer of src/src/utils/validation.js.               *)
(*                                                                         *)
(* Strings are sequences of tokens.  A token is one character of caller or *)
(* model text, or one literal piece of a template of the source (the       *)
(* Japanese literals are written in ASCII).  Concatenation is \o, so a     *)
(* template literal is the concatenation of its pieces, and "contains" is  *)
(* the contiguous sub-sequence relation.                                   *)
(*                                                                         *)
(* JavaScript numbers are kept in tenths (0.8 is 8, 2.5 is 25), with NaN   *)
(* as a value of its own, so that fractional and NaN inputs are inputs.    *)
(***************************************************************************)
EXTENDS Integers, Sequences, FiniteSets, TLC

VARIABLES
    params,               \* the argument of conductWallBounce
    openaiAvailable,      \* openaiProvider.isAvailable()
    geminiAvailable,      \* geminiProvider.isAvailable()
    pc,                   \* where the async function stands
    sanitizedTopic,
    validatedRounds,
    validatedTemperature,
    round,                \* the loop variable
    conversation,         \* participant A's conversation view
    discussionLog,        \* the transcript
    result,               \* the returned string, or the raised error's message
    openaiCalls,          \* requests received by openaiProvider.chatCompletion
    geminiCalls,          \* requests received by geminiProvider.generateContent
    events,               \* history: adapter calls, returns and throws, in order
    fn,                   \* the function of validation.js / GeminiProvider applied
    fnArgs,               \* its arguments
    fnOut,                \* what it returned or threw
    provPc,               \* where one provider completion call stands
    provCall,             \* the provider method called and its params
    externalCalls,        \* the requests handed to the SDK clients
    provOut,              \* what the completion call returned or threw
    runs,                 \* the locals of each of several conductWallBounce calls
    adapterLog,           \* the requests the two shared adapters received
    toolPc,               \* where one tool-call request stands
    toolReq,              \* the request: tool name, arguments, environment
    toolCalls,            \* the calls the tool handlers made on providers and service
    toolOut               \* what handleToolCall and the request handler gave back

wbVars == <<params, openaiAvailable, geminiAvailable, pc, sanitizedTopic,
          validatedRounds, validatedTemperature, round, conversation,
          discussionLog, result, openaiCalls, geminiCalls, events>>
pureVars == <<fn, fnArgs, fnOut>>
provVars == <<provPc, provCall, externalCalls, provOut>>
concVars == <<runs, adapterLog>>
toolVars == <<toolPc, toolReq, toolCalls, toolOut>>
\* everything but the state of one conductWallBounce call
notWbVars == <<pureVars, provVars, concVars, toolVars>>
\* everything but the state of one function application
notPureVars == <<wbVars, provVars, concVars, toolVars>>
\* everything but the state of one provider completion call
notProvVars == <<wbVars, pureVars, concVars, toolVars>>
\* everything but the state of the interleaved conductWallBounce calls
notConcVars == <<wbVars, pureVars, provVars, toolVars>>
\* everything but the state of one tool-call request
notToolVars == <<wbVars, pureVars, provVars, concVars>>
vars == <<wbVars, pureVars, provVars, concVars, toolVars>>

-----------------------------------------------------------------------------
(* JavaScript values *)

Num(whole, tenths) == whole * 10 + tenths

JsString(s) == [type |-> "string", str |-> s, num |-> 0, nan |-> FALSE]
JsNumber(n) == [type |-> "number", str |-> <<>>, num |-> n, nan |-> FALSE]
NaN == [type |-> "number", str |-> <<>>, num |-> 0, nan |-> TRUE]
Undefined == [type |-> "undefined", str |-> <<>>, num |-> 0, nan |-> FALSE]
Null == [type |-> "object", str |-> <<>>, num |-> 0, nan |-> FALSE]

\* !v
Falsy(v) ==
    \/ v.type \in {"undefined", "object"}
    \/ v.type = "string" /\ v.str = <<>>
    \/ v.type = "number" /\ (v.nan \/ v.num = 0)

MathMax(a, b) == IF a.nan \/ b.nan THEN NaN ELSE IF a.num >= b.num THEN a ELSE b
MathMin(a, b) == IF a.nan \/ b.nan THEN NaN ELSE IF a.num <= b.num THEN a ELSE b

\* a <= b on numbers: false when either is NaN
LessEq(a, b) == ~a.nan /\ ~b.nan /\ a.num <= b.num

IntStr(n) == <<ToString(n)>>

\* `${n}` of a number
NumStr(v) ==
    IF v.nan THEN <<"NaN">>
    ELSE IF v.num % 10 = 0 THEN IntStr(v.num \div 10)
    ELSE IF v.num < 0
         THEN <<"-", ToString((-v.num) \div 10), ".", ToString((-v.num) % 10)>>
         ELSE <<ToString(v.num \div 10), ".", ToString(v.num % 10)>>

-----------------------------------------------------------------------------
(* Strings *)

\* the characters /[\x00-\x08\x0B\x0C\x0E-\x1F\x7F]/ removes
ControlChars == {"<NUL>", "<BS>", "<DEL>"}
\* the characters String.prototype.trim removes at both ends
WhitespaceChars == {" ", "<TAB>", "<LF>"}

TopicMaxLength == 1000
\* one token standing for a run of letters, one short of the topic limit
LongRun == "<x...x>"
LongRunLen == TopicMaxLength - 1

CharLen(c) == IF c = LongRun THEN LongRunLen ELSE 1

RECURSIVE JsLength(_)
JsLength(s) == IF s = <<>> THEN 0 ELSE CharLen(Head(s)) + JsLength(Tail(s))

RECURSIVE RemoveControl(_)
RemoveControl(s) ==
    IF s = <<>> THEN <<>>
    ELSE IF Head(s) \in ControlChars THEN RemoveControl(Tail(s))
    ELSE <<Head(s)>> \o RemoveControl(Tail(s))

RECURSIVE TrimStart(_)
TrimStart(s) ==
    IF s # <<>> /\ Head(s) \in WhitespaceChars THEN TrimStart(Tail(s)) ELSE s

RECURSIVE TrimEnd(_)
TrimEnd(s) ==
    IF s # <<>> /\ s[Len(s)] \in WhitespaceChars
    THEN TrimEnd(SubSeq(s, 1, Len(s) - 1)) ELSE s

Trim(s) == TrimEnd(TrimStart(s))

\* s.includes(sub)
Contains(s, sub) ==
    \E i \in 0..(Len(s) - Len(sub)) : SubSeq(s, i + 1, i + Len(sub)) = sub

\* the number of places where sub occurs in s
Occurrences(s, sub) ==
    Cardinality({i \in 0..(Len(s) - Len(sub)) : SubSeq(s, i + 1, i + Len(sub)) = sub})

IsPrefix(p, s) == Len(p) <= Len(s) /\ SubSeq(s, 1, Len(p)) = p

-----------------------------------------------------------------------------
(* src/src/utils/validation.js *)

Ok(s) == [ok |-> TRUE, value |-> s, error |-> <<>>]
Err(m) == [ok |-> FALSE, value |-> <<>>, error |-> m]

InvalidInputMsg == <<"Input must be a non-empty string">>
EmptyAfterSanitizationMsg == <<"Input cannot be empty after sanitization">>
TooLongMsg(maxLength) ==
    <<"Input too long. Maximum ">> \o IntStr(maxLength) \o <<" characters allowed">>

\* validateAndSanitizeInput without its check of the sanitized string for emptiness
validateAndSanitizeInputNoEmptyCheck(input, maxLength) ==
    IF Falsy(input) \/ input.type # "string" THEN Err(InvalidInputMsg)
    ELSE LET sanitized == Trim(RemoveControl(input.str)) IN
         IF JsLength(sanitized) > maxLength THEN Err(TooLongMsg(maxLength))
         ELSE Ok(sanitized)

\* validateAndSanitizeInput trimming before it removes the control characters
validateAndSanitizeInputTrimFirst(input, maxLength) ==
    IF Falsy(input) \/ input.type # "string" THEN Err(InvalidInputMsg)
    ELSE LET sanitized == RemoveControl(Trim(input.str)) IN
         IF JsLength(sanitized) = 0 THEN Err(EmptyAfterSanitizationMsg)
         ELSE IF JsLength(sanitized) > maxLength THEN Err(TooLongMsg(maxLength))
         ELSE Ok(sanitized)

\* validateAndSanitizeInput measuring the input instead of the sanitized string
validateAndSanitizeInputRawLength(input, maxLength) ==
    IF Falsy(input) \/ input.type # "string" THEN Err(InvalidInputMsg)
    ELSE LET sanitized == Trim(RemoveControl(input.str)) IN
         IF JsLength(sanitized) = 0 THEN Err(EmptyAfterSanitizationMsg)
         ELSE IF JsLength(input.str) > maxLength THEN Err(TooLongMsg(maxLength))
         ELSE Ok(sanitized)

validateAndSanitizeInput(input, maxLength) ==
    IF Falsy(input) \/ input.type # "string" THEN Err(InvalidInputMsg)
    ELSE LET sanitized == Trim(RemoveControl(input.str)) IN
         IF JsLength(sanitized) = 0 THEN Err(EmptyAfterSanitizationMsg)
         ELSE IF JsLength(sanitized) > maxLength THEN Err(TooLongMsg(maxLength))
         ELSE Ok(sanitized)

validateAndClampNumber(value, min, max, defaultValue) ==
    LET num == IF value.type = "number" THEN value ELSE defaultValue
    IN  MathMin(MathMax(num, min), max)

-----------------------------------------------------------------------------
(* src/src/services/wall-bounce.js: constants and templates *)

MinRounds == JsNumber(Num(1, 0))
MaxRounds == JsNumber(Num(10, 0))
DefaultRounds == JsNumber(Num(3, 0))
MinTemperature == JsNumber(Num(0, 0))
MaxTemperature == JsNumber(Num(2, 0))
DefaultTemperature == JsNumber(Num(0, 8))
WallBounceMaxTokens == JsNumber(Num(1500, 0))

OpenAIUnavailableMsg ==
    <<"OpenAI provider is not available. Please configure OPENAI_API_KEY.">>
GeminiUnavailableMsg ==
    <<"Gemini provider is not available. Please configure GOOGLE_API_KEY.">>

LogHeader(topic) == <<"# Wall Bounce Discussion: ">> \o topic \o <<"\n\n">>
RoundHeaderMark == "## Round "
\* the round header numbering every round 1
RoundHeaderAlwaysOne(r) == <<RoundHeaderMark>> \o IntStr(1) \o <<"\n\n">>
RoundHeader(r) == <<RoundHeaderMark>> \o IntStr(r) \o <<"\n\n">>
SectionMark == "### "
ModelSection(model, response) ==
    <<SectionMark>> \o model \o <<":\n">> \o response \o <<"\n\n">>
\* the next prompt without the quoted response
NextPromptUnquoted(geminiResponse) ==
    <<"Response from another expert: \"">>
        \o <<"\"\n\nPlease develop the discussion further in light of this response.">>
NextPrompt(geminiResponse) ==
    <<"Response from another expert: \"">> \o geminiResponse
        \o <<"\"\n\nPlease develop the discussion further in light of this response.">>
FailureMark == "An error occurred during the wall bounce session: "
\* the catch block's result without the transcript accumulated so far
FailureResultWithoutLog(message, log) == <<FailureMark>> \o message
\* the catch block returning the transcript accumulated so far and nothing else
FailureResultWithoutMark(message, log) == log
FailureResult(message, log) ==
    <<FailureMark>> \o message \o <<"\n\nDiscussion so far:\n">> \o log

createInitialPrompt(topic) ==
    <<"You are an expert taking part in a technical discussion. [...]\n\nTopic: ">>
        \o topic \o <<"\n\nPlease state your first view or question on this topic.">>

createGeminiPrompt(previousResponse) ==
    <<"You are another expert taking part in a technical discussion. [...]\n\nThe previous model said:\n\"">>
        \o previousResponse
        \o <<"\"\n\nPlease give your response, questions or further insight.">>

SummaryMark == "## Summary\n\n"
\* createSummary naming the first model twice
createSummaryModel1Twice(model1, model2, rounds, topic) ==
    <<SummaryMark, "In this wall bounce session, ">> \o model1 \o <<" and ">>
        \o model1 \o <<" discussed over ">> \o NumStr(rounds) \o <<" rounds \"">>
        \o topic \o <<"\". Both models contributed different views.">>
createSummary(model1, model2, rounds, topic) ==
    <<SummaryMark, "In this wall bounce session, ">> \o model1 \o <<" and ">>
        \o model2 \o <<" discussed over ">> \o NumStr(rounds) \o <<" rounds \"">>
        \o topic \o <<"\". Both models contributed different views.">>

\* the request getOpenAIResponse hands to openaiProvider.chatCompletion
OpenAIRequest(model, conv, temperature) ==
    [model |-> model, messages |-> conv, temperature |-> temperature,
     maxTokens |-> WallBounceMaxTokens]

\* the request to participant B carrying the opening entry of A's view as well
GeminiRequestWithSeed(model, prompt, temperature) ==
    [model |-> model, prompt |-> conversation[1].content \o prompt,
     temperature |-> temperature, maxOutputTokens |-> WallBounceMaxTokens]

\* the request getGeminiResponse hands to geminiProvider.generateContent
GeminiRequest(model, prompt, temperature) ==
    [model |-> model, prompt |-> prompt, temperature |-> temperature,
     maxOutputTokens |-> WallBounceMaxTokens]

-----------------------------------------------------------------------------
(* The inputs *)

TopicInputs ==
    { JsString(<<"a">>),
      JsString(<<" ", "a", "<NUL>", " ", "b", "<TAB>">>),   \* sanitizes to "a b"
      JsString(<<LongRun, "<DEL>", "a">>),      \* raw 1001, sanitized 1000
      JsString(<<LongRun, "a", "b">>),          \* sanitized 1001
      JsString(<<"<NUL>", "<BS>">>),            \* only control characters
      JsString(<<" ", "<NUL>", "<LF>">>),       \* whitespace and control only
      JsString(<<>>),
      JsNumber(Num(42, 0)),                     \* not a string
      Null,
      Undefined }

MaxRoundsInput == 11
RoundsInputs ==
    { Undefined, Null, JsString(<<"3">>), NaN, JsNumber(Num(2, 5)), JsNumber(Num(0, 5)) }
        \cup { JsNumber(Num(k, 0)) : k \in -1..MaxRoundsInput }

TemperatureInputs ==
    { Undefined, NaN, JsNumber(Num(0, -5)), JsNumber(Num(0, 0)), JsNumber(Num(0, 8)),
      JsNumber(Num(2, 0)), JsNumber(Num(5, 0)) }

Model1Names == { <<"gpt-4">> }
Model2Names == { <<"gemini-1.5-pro">> }

\* what the external models answer: the j-th reply of an adapter is numbered j
OpenAIReplies == { <<"OpenAI response ">> \o IntStr(Len(openaiCalls)) }
GeminiReplies == { <<"Gemini response ">> \o IntStr(Len(geminiCalls)) }
\* the messages of the errors an adapter call may throw
ErrorMessages == { <<"API Error">>, <<"Request timeout">> }

Unset == Undefined

\* no function application is under way
NoApplication ==
    /\ fn = "none"
    /\ fnArgs = <<>>
    /\ fnOut = <<>>

\* no provider completion call is under way
NoProviderCall ==
    /\ provPc = "idle"
    /\ provCall = <<>>
    /\ externalCalls = <<>>
    /\ provOut = <<>>

\* no interleaved conductWallBounce calls exist
NoRuns ==
    /\ runs = <<>>
    /\ adapterLog = <<>>

\* no tool-call request is under way
NoToolCall ==
    /\ toolPc = "idle"
    /\ toolReq = <<>>
    /\ toolCalls = <<>>
    /\ toolOut = <<>>

-----------------------------------------------------------------------------
(* The state machine of conductWallBounce *)

Init ==
    /\ params \in [topic : TopicInputs, model1 : Model1Names, model2 : Model2Names,
                   rounds : RoundsInputs, temperature : TemperatureInputs]
    /\ openaiAvailable \in BOOLEAN
    /\ geminiAvailable \in BOOLEAN
    /\ pc = "idle"
    /\ sanitizedTopic = <<>>
    /\ validatedRounds = Unset
    /\ validatedTemperature = Unset
    /\ round = 0
    /\ conversation = <<>>
    /\ discussionLog = <<>>
    /\ result = <<>>
    /\ openaiCalls = <<>>
    /\ geminiCalls = <<>>
    /\ events = <<>>
    /\ NoApplication
    /\ NoProviderCall
    /\ NoRuns
    /\ NoToolCall

\* one entry of the history: e is "call", "return" or "throw"; text is the returned
\* response or the thrown error's message
Event(e, who, r, text) == [e |-> e, who |-> who, round |-> r, text |-> text]

\* the provider check asking participant A's provider only
UnavailableErrorOpenAIOnly ==
    IF ~openaiAvailable THEN OpenAIUnavailableMsg ELSE <<>>

\* the provider check asking participant B's provider first
UnavailableErrorGeminiFirst ==
    IF ~geminiAvailable THEN GeminiUnavailableMsg
    ELSE IF ~openaiAvailable THEN OpenAIUnavailableMsg
    ELSE <<>>

\* the provider check at the entry of conductWallBounce: the message of the error
\* to throw, or <<>> when both providers are available
UnavailableError ==
    IF ~openaiAvailable THEN OpenAIUnavailableMsg
    ELSE IF ~geminiAvailable THEN GeminiUnavailableMsg
    ELSE <<>>

\* the loop condition written round < validatedRounds
LoopContinuesStrict(r, vRounds) ==
    ~vRounds.nan /\ Num(r, 0) < vRounds.num

\* the loop condition round <= validatedRounds
LoopContinues(r, vRounds) == LessEq(JsNumber(Num(r, 0)), vRounds)

\* throw new Error(message) out of conductWallBounce
Raise(message) ==
    /\ pc' = "raised"
    /\ result' = message
    /\ UNCHANGED <<sanitizedTopic, validatedRounds, validatedTemperature, round,
                   conversation, discussionLog, openaiCalls, geminiCalls, events>>

\* the head of the for loop with round = r: either the body up to the await of
\* participant A's call, or the code after the loop
LoopHead(r, conv, log, topic, vRounds, vTemperature, history) ==
    /\ round' = r
    /\ conversation' = conv
    /\ IF LoopContinues(r, vRounds)
       THEN /\ discussionLog' = log \o RoundHeader(r)
            /\ openaiCalls' =
                   Append(openaiCalls, OpenAIRequest(params.model1, conv, vTemperature))
            /\ events' = Append(history, Event("call", "A", r, <<>>))
            /\ pc' = "awaitOpenAI"
            /\ UNCHANGED result
       ELSE /\ discussionLog' =
                   log \o createSummary(params.model1, params.model2, vRounds, topic)
            /\ result' = discussionLog'
            /\ events' = history
            /\ pc' = "returned"
            /\ UNCHANGED openaiCalls
    /\ UNCHANGED geminiCalls

\* the catch block
Catch(message, history) ==
    /\ result' = FailureResult(message, discussionLog)
    /\ events' = history
    /\ pc' = "returned"
    /\ UNCHANGED <<sanitizedTopic, validatedRounds, validatedTemperature, round,
                   conversation, discussionLog, openaiCalls, geminiCalls>>

\* conductWallBounce from its entry to its first await, return or throw
ConductWallBounce ==
    /\ pc = "idle"
    /\ IF UnavailableError # <<>> THEN Raise(UnavailableError)
       ELSE LET topic == validateAndSanitizeInput(params.topic, TopicMaxLength) IN
            IF ~topic.ok THEN Raise(topic.error)
            ELSE LET vRounds ==
                         validateAndClampNumber(params.rounds, MinRounds, MaxRounds,
                                                DefaultRounds)
                     vTemperature ==
                         validateAndClampNumber(params.temperature, MinTemperature,
                                                MaxTemperature, DefaultTemperature)
                     conv == <<[role |-> "user",
                                content |-> createInitialPrompt(topic.value)]>>
                 IN  /\ sanitizedTopic' = topic.value
                     /\ validatedRounds' = vRounds
                     /\ validatedTemperature' = vTemperature
                     /\ LoopHead(1, conv, LogHeader(topic.value), topic.value,
                                 vRounds, vTemperature, events)
    /\ UNCHANGED <<params, openaiAvailable, geminiAvailable>>
    /\ UNCHANGED notWbVars

\* participant A's call returns: the body up to the await of participant B's call
OpenAIReturns ==
    /\ pc = "awaitOpenAI"
    /\ \E openaiResponse \in OpenAIReplies :
          /\ discussionLog' =
                 discussionLog \o ModelSection(params.model1, openaiResponse)
          /\ conversation' =
                 Append(conversation, [role |-> "assistant", content |-> openaiResponse])
          /\ geminiCalls' =
                 Append(geminiCalls,
                        GeminiRequest(params.model2, createGeminiPrompt(openaiResponse),
                                      validatedTemperature))
          /\ events' = events \o <<Event("return", "A", round, openaiResponse),
                                    Event("call", "B", round, <<>>)>>
    /\ pc' = "awaitGemini"
    /\ UNCHANGED <<params, openaiAvailable, geminiAvailable, sanitizedTopic,
                   validatedRounds, validatedTemperature, round, result, openaiCalls>>
    /\ UNCHANGED notWbVars

\* participant A's call throws
OpenAIThrows ==
    /\ pc = "awaitOpenAI"
    /\ \E message \in ErrorMessages :
          Catch(message, Append(events, Event("throw", "A", round, message)))
    /\ UNCHANGED <<params, openaiAvailable, geminiAvailable>>
    /\ UNCHANGED notWbVars

\* participant B's call returns: the rest of the body, and the next loop head
GeminiReturns ==
    /\ pc = "awaitGemini"
    /\ \E geminiResponse \in GeminiReplies :
          LoopHead(round + 1,
                   Append(conversation,
                          [role |-> "user", content |-> NextPrompt(geminiResponse)]),
                   discussionLog \o ModelSection(params.model2, geminiResponse),
                   sanitizedTopic, validatedRounds, validatedTemperature,
                   Append(events, Event("return", "B", round, geminiResponse)))
    /\ UNCHANGED <<params, openaiAvailable, geminiAvailable, sanitizedTopic,
                   validatedRounds, validatedTemperature>>
    /\ UNCHANGED notWbVars

\* participant B's call throws and the call is issued once more
GeminiThrowsRetry ==
    /\ pc = "awaitGemini"
    /\ \E message \in ErrorMessages :
          /\ geminiCalls' = Append(geminiCalls, geminiCalls[Len(geminiCalls)])
          /\ events' = events \o <<Event("throw", "B", round, message),
                                    Event("call", "B", round, <<>>)>>
    /\ UNCHANGED <<params, openaiAvailable, geminiAvailable, pc, sanitizedTopic,
                   validatedRounds, validatedTemperature, round, conversation,
                   discussionLog, result, openaiCalls>>
    /\ UNCHANGED notWbVars

\* participant B's call throws
GeminiThrows ==
    /\ pc = "awaitGemini"
    /\ \E message \in ErrorMessages :
          Catch(message, Append(events, Event("throw", "B", round, message)))
    /\ UNCHANGED <<params, openaiAvailable, geminiAvailable>>
    /\ UNCHANGED notWbVars

Next ==
    \/ ConductWallBounce
    \/ OpenAIReturns
    \/ OpenAIThrows
    \/ GeminiReturns
    \/ GeminiThrows

Spec == Init /\ [][Next]_vars

\* the event loop resumes conductWallBounce once the awaited provider call has
\* returned or thrown
SpecFair ==
    /\ Spec
    /\ WF_vars(OpenAIReturns \/ OpenAIThrows)
    /\ WF_vars(GeminiReturns \/ GeminiThrows)

-----------------------------------------------------------------------------
(* Vocabulary of the properties *)

\* conductWallBounce has got past its checks and into the round loop
Entered == pc \in {"awaitOpenAI", "awaitGemini", "returned"}

\* the places of the history where an adapter call threw
Throws == {i \in DOMAIN events : events[i].e = "throw"}
NoThrow == Throws = {}

IsCall(ev) == ev.e = "call"
CallEvents == SelectSeq(events, IsCall)

\* the rounds 1..n that the bound validatedRounds admits
RoundsAdmitted ==
    Cardinality({k \in 1..(MaxRounds.num \div 10) :
                    ~validatedRounds.nan /\ Num(k, 0) <= validatedRounds.num})

\* rounds in which both participants answered
CompletedRounds ==
    Cardinality({i \in DOMAIN events : events[i].e = "return" /\ events[i].who = "B"})

\* the response who's call returned in round k
ReturnedText(who, k) ==
    LET i == CHOOSE j \in DOMAIN events :
                 events[j].e = "return" /\ events[j].who = who /\ events[j].round = k
    IN  events[i].text

RoundHeaders(s) == Occurrences(s, <<RoundHeaderMark>>)
HasSummary(s) == Contains(s, <<SummaryMark>>)
HasFailureMark(s) == Contains(s, <<FailureMark>>)
\* the text from the summary heading to the end
SummarySection(s) ==
    SubSeq(s, CHOOSE i \in DOMAIN s : s[i] = SummaryMark, Len(s))

\* the i-th call of the sequence A1, B1, A2, B2, ...
ExpectedWho(i) == IF i % 2 = 1 THEN "A" ELSE "B"
ExpectedRound(i) == (i + 1) \div 2

\* each adapter has been called once per admitted round
FullCallSequence ==
    /\ Len(CallEvents) = 2 * RoundsAdmitted
    /\ Len(openaiCalls) = RoundsAdmitted
    /\ Len(geminiCalls) = RoundsAdmitted

\* what is common to the two readings of C2: the calls made so far are the first
\* calls of A1, B1, ..., An, Bn, every call but the first follows the return of the
\* call before it, every return or throw answers the call just made, and a throw
\* is the last thing that happens
CallsFollowTheOrder ==
    /\ ~Entered => events = <<>> /\ openaiCalls = <<>> /\ geminiCalls = <<>>
    /\ Len(CallEvents) <= 2 * RoundsAdmitted
    /\ \A i \in DOMAIN CallEvents :
          /\ CallEvents[i].who = ExpectedWho(i)
          /\ CallEvents[i].round = ExpectedRound(i)
    /\ \A i \in DOMAIN events :
          IF i % 2 = 1
          THEN /\ events[i].e = "call"
               /\ i > 1 => events[i - 1].e = "return"
          ELSE /\ events[i].e \in {"return", "throw"}
               /\ events[i].who = events[i - 1].who
               /\ events[i].round = events[i - 1].round
    /\ \A i \in Throws : i = Len(events) /\ pc = "returned"
    /\ Len(openaiCalls) = Cardinality({i \in DOMAIN CallEvents : CallEvents[i].who = "A"})
    /\ Len(geminiCalls) = Cardinality({i \in DOMAIN CallEvents : CallEvents[i].who = "B"})
    /\ pc = "returned" /\ NoThrow => FullCallSequence

-----------------------------------------------------------------------------
(* The claims *)

\* C1: when either provider reports isAvailable() = false, conductWallBounce
\* raises the error naming that provider instead of returning, and neither
\* adapter's completion operation has been called when it raises.
C1_UnavailableRaisesBeforeAnyCall ==
    (pc # "idle" /\ (~openaiAvailable \/ ~geminiAvailable)) =>
        /\ pc = "raised"
        /\ result = (IF ~openaiAvailable THEN OpenAIUnavailableMsg
                     ELSE GeminiUnavailableMsg)
        /\ Len(openaiCalls) = 0
        /\ Len(geminiCalls) = 0
        /\ events = <<>>

\* C1 witness: a call raised because only participant B's provider is unavailable
C1_Witness ==
    pc = "raised" /\ openaiAvailable /\ ~geminiAvailable

\* C2 as stated: the adapter calls are a prefix of A1, B1, ..., An, Bn in this
\* order, each issued after the return of the one before, ending at the first
\* throw, and the sequence is the full one exactly when no call throws.
C2_FullExactlyWhenNoThrow ==
    /\ CallsFollowTheOrder
    /\ pc = "returned" => (FullCallSequence <=> NoThrow)

\* C2 as amended: the adapter calls are a prefix of A1, B1, ..., An, Bn in this
\* order (n the rounds the bound admits), each issued after the return of the one
\* before, none skipped or repeated, ending at the first throw; the sequence is
\* the full one whenever no call throws, and otherwise exactly when the call that
\* throws is the last one, Bn.
C2_CallsInOrder ==
    /\ CallsFollowTheOrder
    /\ pc = "returned" =>
          (FullCallSequence <=>
              (NoThrow \/ \E i \in Throws :
                              events[i].who = "B" /\ events[i].round = RoundsAdmitted))

\* C2 witness: a run of three rounds whose last call, B3, threw
C2_Witness ==
    /\ pc = "returned"
    /\ RoundsAdmitted = 3
    /\ FullCallSequence
    /\ \E i \in Throws : events[i].who = "B" /\ events[i].round = 3

\* C3: when a call of participant A or B throws in round k, conductWallBounce
\* returns (it does not raise) a string holding the failure marker, the thrown
\* message and every response returned before the failing call: both responses
\* of every round before k, and A's of round k when it is B that failed.
C3_FailureKeepsWork ==
    \A i \in Throws :
        LET k == events[i].round
            before == {j \in 1..(i - 1) : events[j].e = "return"}
        IN  /\ pc = "returned"
            /\ HasFailureMark(result)
            /\ Contains(result, events[i].text)
            /\ Cardinality(before) = 2 * (k - 1) + (IF events[i].who = "B" THEN 1 ELSE 0)
            /\ \A r \in 1..(k - 1) :
                  /\ Contains(result, ReturnedText("A", r))
                  /\ Contains(result, ReturnedText("B", r))
            /\ events[i].who = "B" => Contains(result, ReturnedText("A", k))
            /\ \A j \in before : Contains(result, events[j].text)

\* C3 witness: participant A's call threw in round 3, after two full rounds
C3_Witness ==
    \E i \in Throws : events[i].who = "A" /\ events[i].round = 3 /\ pc = "returned"

\* a whole number of rounds in 1..10 was asked for
WholeRoundsInput ==
    /\ params.rounds.type = "number"
    /\ ~params.rounds.nan
    /\ params.rounds.num % 10 = 0
    /\ LessEq(MinRounds, params.rounds)
    /\ LessEq(params.rounds, MaxRounds)

\* C4 as stated: for rounds in 1..10 the returned string has exactly `rounds`
\* round headers when no call fails, and when a call fails at most as many round
\* headers as rounds were completed before the failure.
C4_AtMostCompletedRounds ==
    (pc = "returned" /\ WholeRoundsInput) =>
        IF NoThrow
        THEN Num(RoundHeaders(result), 0) = params.rounds.num
        ELSE RoundHeaders(result) <= CompletedRounds

\* C4 as amended: for rounds in 1..10 the returned string has exactly `rounds`
\* round headers when no call fails; when a call fails in round k it has exactly
\* k round headers, those of rounds 1..k: one more than the rounds completed
\* before the failure, the header of round k being written before A's call.
C4_RoundHeaders ==
    (pc = "returned" /\ WholeRoundsInput) =>
        /\ IF NoThrow
           THEN Num(RoundHeaders(result), 0) = params.rounds.num
           ELSE /\ RoundHeaders(result) = CompletedRounds + 1
                /\ \A i \in Throws : RoundHeaders(result) = events[i].round
        /\ \A k \in 1..RoundHeaders(result) : Occurrences(result, RoundHeader(k)) = 1

\* C4 witness: a failure in round 2 of a run asked for 1..10 rounds
C4_Witness ==
    /\ pc = "returned"
    /\ WholeRoundsInput
    /\ ~NoThrow
    /\ CompletedRounds = 1
    /\ RoundHeaders(result) = 2

\* C5: the returned string has the summary section exactly when every round
\* completed without a failing call; the summary names both models, the
\* effective round count and the sanitized topic; when B's call fails in round k
\* the result holds rounds 1..k-1 in full and a failure section with the thrown
\* message, and holds neither a section of B for round k nor a summary.
C5_SummaryIffAllRoundsCompleted ==
    pc = "returned" =>
        /\ HasSummary(result) <=> NoThrow
        /\ HasSummary(result) =>
              /\ CompletedRounds = RoundsAdmitted
              /\ Contains(SummarySection(result), params.model1)
              /\ Contains(SummarySection(result), params.model2)
              /\ Contains(SummarySection(result), NumStr(validatedRounds))
              /\ Contains(SummarySection(result), sanitizedTopic)
              /\ sanitizedTopic = Trim(RemoveControl(params.topic.str))
        /\ \A i \in Throws :
              events[i].who = "B" =>
                  LET k == events[i].round IN
                  /\ \A r \in 1..(k - 1) :
                        Contains(result,
                                 RoundHeader(r)
                                     \o ModelSection(params.model1, ReturnedText("A", r))
                                     \o ModelSection(params.model2, ReturnedText("B", r)))
                  /\ Contains(result, <<FailureMark>> \o events[i].text)
                  /\ Occurrences(result, <<SectionMark>> \o params.model2 \o <<":\n">>)
                         = k - 1
                  /\ ~HasSummary(result)

\* C5 witness: participant B's call threw in round 2 after a full round 1
C5_Witness ==
    \E i \in Throws : events[i].who = "B" /\ events[i].round = 2 /\ pc = "returned"

\* clamp(x, 1, 10) of a number x in tenths
ClampRounds(x) ==
    IF x < MinRounds.num THEN MinRounds.num
    ELSE IF x > MaxRounds.num THEN MaxRounds.num
    ELSE x

\* C6: for every numeric rounds input the effective round count is
\* clamp(input, 1, 10), a failure-free run calls each adapter exactly that many
\* times, and the summary reports that count.
C6_EffectiveRoundsIsClamp ==
    (Entered /\ params.rounds.type = "number") =>
        /\ ~validatedRounds.nan
        /\ validatedRounds.num = ClampRounds(params.rounds.num)
        /\ (pc = "returned" /\ NoThrow) =>
              /\ Num(Len(openaiCalls), 0) = validatedRounds.num
              /\ Num(Len(geminiCalls), 0) = validatedRounds.num
              /\ Contains(SummarySection(result), NumStr(validatedRounds))

\* C7: whatever was supplied for rounds, a failure-free run executes a whole
\* number N of rounds with 1 <= N <= 10: never zero rounds, never more than ten.
C7_RoundsBetweenOneAndTen ==
    (pc = "returned" /\ NoThrow) =>
        /\ CompletedRounds >= MinRounds.num \div 10
        /\ CompletedRounds <= MaxRounds.num \div 10
        /\ Len(openaiCalls) = CompletedRounds
        /\ Len(geminiCalls) = CompletedRounds

\* the temperatures of the requests the two adapters have received
TemperaturesHanded ==
    {openaiCalls[i].temperature : i \in DOMAIN openaiCalls}
        \cup {geminiCalls[i].temperature : i \in DOMAIN geminiCalls}

\* C8: for every temperature input, the temperature handed to participant A's
\* and to participant B's adapter in every round is one and the same value, it
\* lies in [0,2], and an input outside [0,2] is replaced by the nearest bound.
C8_TemperatureClamped ==
    \A t \in TemperaturesHanded :
        /\ t = validatedTemperature
        /\ ~t.nan
        /\ MinTemperature.num <= t.num /\ t.num <= MaxTemperature.num
        /\ (params.temperature.type = "number" /\ ~params.temperature.nan) =>
              t.num = (IF params.temperature.num < MinTemperature.num
                           THEN MinTemperature.num
                       ELSE IF params.temperature.num > MaxTemperature.num
                           THEN MaxTemperature.num
                       ELSE params.temperature.num)

\* the topic is a non-empty string, so it reaches sanitization
TopicIsText == params.topic.type = "string" /\ params.topic.str # <<>>
\* what is left of the topic without the removed characters and the surrounding
\* whitespace
TopicKept ==
    LET kept == SelectSeq(params.topic.str, LAMBDA c : c \notin ControlChars)
        inner == {i \in DOMAIN kept : kept[i] \notin WhitespaceChars}
    IN  IF inner = {} THEN <<>>
        ELSE SubSeq(kept, CHOOSE i \in inner : \A j \in inner : i <= j,
                          CHOOSE i \in inner : \A j \in inner : i >= j)

\* C9: with both providers available, a topic that is empty after sanitization
\* makes conductWallBounce raise the empty-after-sanitization error and a topic
\* whose sanitized length exceeds 1000 makes it raise the too-long error; in
\* both cases it raises instead of returning and no adapter call has been made.
C9_InvalidTopicRaisesBeforeAnyCall ==
    (pc # "idle" /\ openaiAvailable /\ geminiAvailable /\ TopicIsText) =>
        /\ TopicKept = <<>> =>
              /\ pc = "raised"
              /\ result = EmptyAfterSanitizationMsg
              /\ openaiCalls = <<>> /\ geminiCalls = <<>> /\ events = <<>>
        /\ JsLength(TopicKept) > TopicMaxLength =>
              /\ pc = "raised"
              /\ result = TooLongMsg(TopicMaxLength)
              /\ openaiCalls = <<>> /\ geminiCalls = <<>> /\ events = <<>>

\* C9 witness: a topic of control characters only was refused
C9_Witness ==
    /\ pc = "raised"
    /\ TopicIsText
    /\ \A i \in DOMAIN params.topic.str : params.topic.str[i] \in ControlChars
    /\ result = EmptyAfterSanitizationMsg

\* header, every round and the summary, and no failure section
FullTranscript ==
    /\ IsPrefix(LogHeader(sanitizedTopic), result)
    /\ RoundHeaders(result) = RoundsAdmitted
    /\ \A k \in 1..RoundsAdmitted :
          Contains(result,
                   RoundHeader(k)
                       \o ModelSection(params.model1, ReturnedText("A", k))
                       \o ModelSection(params.model2, ReturnedText("B", k)))
    /\ HasSummary(result)
    /\ ~HasFailureMark(result)

\* a failure section, the transcript so far, and no summary
PartialTranscript ==
    /\ HasFailureMark(result)
    /\ Contains(result, LogHeader(sanitizedTopic))
    /\ ~HasSummary(result)

\* C10: every termination of conductWallBounce is exactly one of: a full
\* transcript (header, all rounds, summary), a partial transcript with a marked
\* failure section, a raised error with a non-empty message; it never returns an
\* empty string nor a transcript with neither a summary nor a failure marker.
C10_ThreeOutcomes ==
    /\ pc \in {"idle", "awaitOpenAI", "awaitGemini", "returned", "raised"}
    /\ pc = "returned" =>
          /\ result # <<>>
          /\ FullTranscript \/ PartialTranscript
          /\ ~(FullTranscript /\ PartialTranscript)
          /\ HasSummary(result) \/ HasFailureMark(result)
    /\ pc = "raised" =>
          /\ JsLength(result) > 0
          /\ ~HasSummary(result) /\ ~HasFailureMark(result)
          /\ discussionLog = <<>>

\* C10 witness: a partial transcript returned after the very first call threw
C10_Witness ==
    /\ pc = "returned"
    /\ PartialTranscript
    /\ Len(openaiCalls) = 1
    /\ geminiCalls = <<>>

-----------------------------------------------------------------------------
(* src/src/utils/validation.js: validateMessages, and GeminiProvider.convertMessages *)

\* an array value
JsArray(items) == [type |-> "array", items |-> items]

MessagesNotArrayMsg == <<"Messages must be an array">>
MessageContentMsg == <<"Message content must be a non-empty string">>
DefaultMaxLength == 10000

\* the callback of messages.map in validateMessages, on one entry
ValidateEntry(msg) ==
    IF Falsy(msg.content) \/ msg.content.type # "string" THEN Err(MessageContentMsg)
    ELSE validateAndSanitizeInput(msg.content, DefaultMaxLength)

\* { ...msg, content: sanitizedContent } reduced to role and content
SanitizedEntryRoleAndContentOnly(msg) ==
    [role |-> msg.role, content |-> JsString(ValidateEntry(msg).value)]

\* { ...msg, content: sanitizedContent }
SanitizedEntry(msg) ==
    [msg EXCEPT !.content = JsString(ValidateEntry(msg).value)]

\* validateMessages: the new array, or the error of the first entry that fails;
\* inputAfter is the argument as the call leaves it
validateMessages(messages) ==
    IF messages.type # "array"
    THEN [ok |-> FALSE, value |-> <<>>, error |-> MessagesNotArrayMsg,
          inputAfter |-> messages]
    ELSE LET items == messages.items
             bad == {i \in DOMAIN items : ~ValidateEntry(items[i]).ok}
         IN  IF bad # {}
             THEN [ok |-> FALSE, value |-> <<>>,
                   error |-> ValidateEntry(items[CHOOSE i \in bad :
                                                     \A j \in bad : i <= j]).error,
                   inputAfter |-> messages]
             ELSE [ok |-> TRUE,
                   value |-> [i \in DOMAIN items |-> SanitizedEntry(items[i])],
                   error |-> <<>>,
                   inputAfter |-> messages]

\* the callback of messages.map in convertMessages, on one entry
ConvertEntry(msg) ==
    IF msg.role = "system" THEN [role |-> "system", content |-> msg.content]
    ELSE IF msg.role = "user" THEN [role |-> "user", content |-> msg.content]
    ELSE IF msg.role = "assistant" THEN [role |-> "model", content |-> msg.content]
    ELSE msg

\* convertMessages on an array of entries
convertMessages(items) == [i \in DOMAIN items |-> ConvertEntry(items[i])]

-----------------------------------------------------------------------------
(* Applications of the pure functions to bounded inputs *)

MaxStrLen == 3
\* strings of a letter, a blank, a control character and a long run of letters
Strings == UNION {[1..n -> {"a", " ", "<NUL>", LongRun}] : n \in 0..MaxStrLen}

\* values passed as input of validateAndSanitizeInput
SanitizeInputs ==
    {JsString(x) : x \in Strings} \cup {Undefined, Null, NaN, JsNumber(Num(123, 0))}
SanitizeMaxLengths == {2, TopicMaxLength}

\* values passed to validateAndClampNumber
ClampValues ==
    {Undefined, Null, JsString(<<"n", "o">>), NaN}
        \cup {JsNumber(n) : n \in {Num(0, -5), 0, 5, 10, 12, 20, 25, 50, 110}}
ClampRanges ==
    {<<MinTemperature, MaxTemperature>>, <<MinRounds, MaxRounds>>,
     <<MinRounds, MinRounds>>}
ClampDefaults == {JsNumber(n) : n \in {3, 8, 10, 12, 15, 30, 50}}

\* entries of a messages array: a role, content present or missing, with or
\* without an extra field
EntryContents ==
    {JsString(<<" ", "H", "i", "<NUL>", " ">>), JsString(<<"a">>), JsString(<<"<NUL>">>),
     JsString(<<>>), JsNumber(Num(123, 0)), Undefined}
Entries ==
    [role : {"user", "assistant", "custom"}, content : EntryContents]
        \cup [role : {"user", "assistant", "custom"}, content : EntryContents,
              timestamp : {"2024-01-01"}]
MaxMessages == 2
MessageArrays == UNION {[1..n -> Entries] : n \in 0..MaxMessages}
MessagesInputs ==
    {JsArray(items) : items \in MessageArrays}
        \cup {JsString(<<"n", "o">>), Undefined, Null}

ApplySanitize ==
    /\ fn = "none"
    /\ \E input \in SanitizeInputs, maxLength \in SanitizeMaxLengths :
          /\ fnArgs' = [input |-> input, maxLength |-> maxLength]
          /\ fnOut' = validateAndSanitizeInput(input, maxLength)
    /\ fn' = "validateAndSanitizeInput"
    /\ UNCHANGED notPureVars

\* validateAndSanitizeInput applied to what its first application returned
ApplySanitizeAgain ==
    /\ fn = "validateAndSanitizeInput"
    /\ fnOut.ok
    /\ fnArgs' = [input |-> fnArgs.input, maxLength |-> fnArgs.maxLength,
                  first |-> fnOut.value]
    /\ fnOut' = validateAndSanitizeInput(JsString(fnOut.value), fnArgs.maxLength)
    /\ fn' = "validateAndSanitizeInput twice"
    /\ UNCHANGED notPureVars

ApplyClamp ==
    /\ fn = "none"
    /\ \E value \in ClampValues, range \in ClampRanges, defaultValue \in ClampDefaults :
          /\ fnArgs' = [value |-> value, min |-> range[1], max |-> range[2],
                        defaultValue |-> defaultValue]
          /\ fnOut' = validateAndClampNumber(value, range[1], range[2], defaultValue)
    /\ fn' = "validateAndClampNumber"
    /\ UNCHANGED notPureVars

ApplyValidateMessages ==
    /\ fn = "none"
    /\ \E messages \in MessagesInputs :
          /\ fnArgs' = [messages |-> messages]
          /\ fnOut' = validateMessages(messages)
    /\ fn' = "validateMessages"
    /\ UNCHANGED notPureVars

ApplyConvertMessages ==
    /\ fn = "none"
    /\ \E items \in MessageArrays :
          /\ fnArgs' = [messages |-> items]
          /\ fnOut' = convertMessages(items)
    /\ fn' = "convertMessages"
    /\ UNCHANGED notPureVars

\* one conductWallBounce call that is never started
WallBounceIdle ==
    /\ params = [topic |-> JsString(<<"a">>), model1 |-> <<"gpt-4">>,
                 model2 |-> <<"gemini-1.5-pro">>, rounds |-> Undefined,
                 temperature |-> Undefined]
    /\ openaiAvailable = TRUE
    /\ geminiAvailable = TRUE
    /\ pc = "idle"
    /\ sanitizedTopic = <<>>
    /\ validatedRounds = Unset
    /\ validatedTemperature = Unset
    /\ round = 0
    /\ conversation = <<>>
    /\ discussionLog = <<>>
    /\ result = <<>>
    /\ openaiCalls = <<>>
    /\ geminiCalls = <<>>
    /\ events = <<>>

InitIdle == WallBounceIdle /\ NoApplication /\ NoProviderCall /\ NoRuns /\ NoToolCall

NextPure ==
    \/ ApplySanitize
    \/ ApplySanitizeAgain
    \/ ApplyClamp
    \/ ApplyValidateMessages
    \/ ApplyConvertMessages

SpecPure == InitIdle /\ [][NextPure]_vars

-----------------------------------------------------------------------------
(* Properties of the pure functions *)

Applied(f) == fn = f

\* what is left of s without the removed characters and the surrounding whitespace
Kept(s) ==
    LET kept == SelectSeq(s, LAMBDA c : c \notin ControlChars)
        inner == {i \in DOMAIN kept : kept[i] \notin WhitespaceChars}
    IN  IF inner = {} THEN <<>>
        ELSE SubSeq(kept, CHOOSE i \in inner : \A j \in inner : i <= j,
                          CHOOSE i \in inner : \A j \in inner : i >= j)

\* x clamped into [lo, hi], on numbers in tenths
Clamp(x, lo, hi) == IF x < lo THEN lo ELSE IF x > hi THEN hi ELSE x

\* C12: validateAndClampNumber returns the default itself whenever the value is
\* not of numeric type, for every default; otherwise it returns the value
\* clamped into [min, max]; it never throws (it always yields a number).
C12_DefaultOrClamped ==
    Applied("validateAndClampNumber") =>
        IF fnArgs.value.type # "number"
        THEN fnOut = fnArgs.defaultValue
        ELSE /\ fnOut.type = "number"
             /\ ~fnOut.nan
             /\ fnOut.num = Clamp(fnArgs.value.num, fnArgs.min.num, fnArgs.max.num)

\* C13: sanitization is idempotent: applied to a string it returned,
\* validateAndSanitizeInput with the same maxLength succeeds and returns that
\* string again.
C13_SanitizeIdempotent ==
    Applied("validateAndSanitizeInput twice") =>
        /\ fnOut.ok
        /\ fnOut.value = fnArgs.first

C13_Witness ==
    /\ Applied("validateAndSanitizeInput twice")
    /\ fnArgs.input.str # fnArgs.first
    /\ fnOut.ok
    /\ fnOut.value = fnArgs.first

\* C14: validateAndSanitizeInput has exactly four outcomes, decided in this
\* order: the invalid-input error when the input is not a non-empty string; the
\* empty-after-sanitization error when nothing is left of it; the too-long error
\* when the sanitized (not the raw) length exceeds maxLength; otherwise the
\* sanitized string, which is non-empty, no longer than maxLength, free of the
\* removed control characters and of leading and trailing whitespace.
C14_FourOutcomesInOrder ==
    Applied("validateAndSanitizeInput") =>
        LET input == fnArgs.input
            maxLength == fnArgs.maxLength
            kept == Kept(input.str)
        IN  IF ~(input.type = "string" /\ input.str # <<>>)
            THEN fnOut = Err(InvalidInputMsg)
            ELSE IF kept = <<>>
            THEN fnOut = Err(EmptyAfterSanitizationMsg)
            ELSE IF JsLength(kept) > maxLength
            THEN fnOut = Err(TooLongMsg(maxLength))
            ELSE /\ fnOut = Ok(kept)
                 /\ fnOut.value # <<>>
                 /\ JsLength(fnOut.value) <= maxLength
                 /\ \A i \in DOMAIN fnOut.value : fnOut.value[i] \notin ControlChars
                 /\ fnOut.value[1] \notin WhitespaceChars
                 /\ fnOut.value[Len(fnOut.value)] \notin WhitespaceChars

\* a raw input longer than maxLength whose sanitized form fits
C14_Witness ==
    /\ Applied("validateAndSanitizeInput")
    /\ fnArgs.input.type = "string"
    /\ JsLength(fnArgs.input.str) > fnArgs.maxLength
    /\ fnOut.ok
    /\ fnOut.value # fnArgs.input.str

\* the entry has string content that survives sanitization
EntrySurvives(msg) ==
    /\ msg.content.type = "string"
    /\ Kept(msg.content.str) # <<>>
    /\ JsLength(Kept(msg.content.str)) <= DefaultMaxLength
\* the entry has missing or non-string content
EntryContentMissing(msg) == msg.content.type # "string"
\* the first entry of items that does not survive, 0 when all survive
FirstOffending(items) ==
    LET off == {i \in DOMAIN items : ~EntrySurvives(items[i])}
    IN  IF off = {} THEN 0 ELSE CHOOSE i \in off : \A j \in off : i <= j

C19_ConvertPassesThrough ==
    Applied("convertMessages") =>
        LET items == fnArgs.messages IN
        /\ Len(fnOut) = Len(items)
        /\ \A i \in DOMAIN items :
              /\ fnOut[i].content = items[i].content
              /\ fnOut[i].role =
                     (IF items[i].role = "assistant" THEN "model" ELSE items[i].role)
              /\ DOMAIN fnOut[i] = DOMAIN items[i]
              /\ \A f \in DOMAIN items[i] \ {"role", "content"} :
                     fnOut[i][f] = items[i][f]

-----------------------------------------------------------------------------
(* src/src/providers/openai-provider.js and GeminiProvider (validation.js):
   one completion call of a provider *)

MinTokens == JsNumber(Num(1, 0))
OpenAIMaxTokens == JsNumber(Num(4000, 0))
GeminiMaxTokens == JsNumber(Num(8192, 0))
ChatDefaultTemperature == JsNumber(Num(1, 0))
ChatDefaultTokens == JsNumber(Num(2500, 0))
GenerateDefaultTokens == JsNumber(Num(1500, 0))
Gpt5Temperature == JsNumber(Num(1, 0))
Gpt5Mark == <<"gpt-5">>

GeminiNotAvailableMsg ==
    <<"Gemini integration not available. Please configure GOOGLE_API_KEY.">>
\* the TypeError of reading property p of undefined
TypeErrorMsg(p) ==
    <<"TypeError: Cannot read properties of undefined (reading '", p, "')">>

\* what a completion call returned or threw; reply is the SDK's reply when the
\* call got one
Returned(v) == [kind |-> "return", value |-> v, error |-> <<>>, reply |-> <<>>]
Thrown(m) == [kind |-> "throw", value |-> Undefined, error |-> m, reply |-> <<>>]

\* the params of the completion calls
ProviderModels ==
    {<<"gpt-4">>, <<"gpt-5">>, <<"gpt-5", "-mini">>, <<"x-", "gpt-5">>,
     <<"gemini-1.5-pro">>}
ProviderMessages ==
    {JsArray(<<[role |-> "user", content |-> JsString(<<"Hello">>)]>>),
     JsArray(<<[role |-> "user", content |-> JsString(<<"Hello">>)],
               [role |-> "assistant", content |-> JsString(<<" ", "Hi">>)]>>),
     JsArray(<<[role |-> "user", content |-> JsNumber(Num(123, 0))]>>),
     Undefined}
ProviderTemperatures ==
    {Undefined, NaN} \cup {JsNumber(n) : n \in {Num(0, -10), 0, 7, 10, 25}}
ProviderTokens ==
    {Undefined, NaN}
        \cup {JsNumber(n) : n \in {0, Num(1000, 0), Num(5000, 0), Num(10000, 0)}}

\* OpenAIProvider.chatCompletion up to its await
OpenAIChatCompletion ==
    /\ provPc = "idle"
    /\ \E available \in BOOLEAN, model \in ProviderModels,
          messages \in ProviderMessages, temperature \in ProviderTemperatures,
          maxTokens \in ProviderTokens :
          LET validatedMessages == validateMessages(messages)
              clampedTemperature ==
                  validateAndClampNumber(temperature, MinTemperature, MaxTemperature,
                                         ChatDefaultTemperature)
              clampedMaxTokens ==
                  validateAndClampNumber(maxTokens, MinTokens, OpenAIMaxTokens,
                                         ChatDefaultTokens)
              requestParams ==
                  IF Contains(model, Gpt5Mark)
                  THEN [model |-> model, messages |-> validatedMessages.value,
                        temperature |->
                            IF clampedTemperature # Gpt5Temperature
                            THEN Gpt5Temperature ELSE clampedTemperature,
                        max_completion_tokens |-> clampedMaxTokens]
                  ELSE [model |-> model, messages |-> validatedMessages.value,
                        temperature |-> clampedTemperature,
                        max_tokens |-> clampedMaxTokens]
          IN  /\ provCall' = [method |-> "OpenAIProvider.chatCompletion",
                              available |-> available, model |-> model,
                              messages |-> messages, temperature |-> temperature,
                              maxTokens |-> maxTokens]
              /\ IF ~validatedMessages.ok
                 THEN /\ provPc' = "raised"
                      /\ provOut' = Thrown(validatedMessages.error)
                      /\ UNCHANGED externalCalls
                 ELSE /\ provPc' = "awaiting"
                      /\ externalCalls' =
                             Append(externalCalls,
                                    [api |-> "chat.completions.create",
                                     request |-> requestParams])
                      /\ UNCHANGED provOut
    /\ UNCHANGED notProvVars

\* GeminiProvider.chatCompletion up to its await
GeminiChatCompletion ==
    /\ provPc = "idle"
    /\ \E available \in BOOLEAN, model \in ProviderModels,
          messages \in ProviderMessages, temperature \in ProviderTemperatures,
          maxOutputTokens \in ProviderTokens :
          LET validatedMessages == validateMessages(messages)
              clampedTemperature ==
                  validateAndClampNumber(temperature, MinTemperature, MaxTemperature,
                                         ChatDefaultTemperature)
              clampedMaxTokens ==
                  validateAndClampNumber(maxOutputTokens, MinTokens,
                                         GeminiMaxTokens, ChatDefaultTokens)
          IN  /\ provCall' = [method |-> "GeminiProvider.chatCompletion",
                              available |-> available, model |-> model,
                              messages |-> messages, temperature |-> temperature,
                              maxTokens |-> maxOutputTokens]
              /\ IF ~available
                 THEN /\ provPc' = "raised"
                      /\ provOut' = Thrown(GeminiNotAvailableMsg)
                      /\ UNCHANGED externalCalls
                 ELSE IF ~validatedMessages.ok
                 THEN /\ provPc' = "raised"
                      /\ provOut' = Thrown(validatedMessages.error)
                      /\ UNCHANGED externalCalls
                 ELSE /\ provPc' = "awaiting"
                      /\ externalCalls' =
                             Append(externalCalls,
                                    [api |-> "models.generateContent",
                                     request |->
                                         [model |-> model,
                                          contents |->
                                              convertMessages(validatedMessages.value),
                                          config |->
                                              [temperature |-> clampedTemperature,
                                               maxOutputTokens |-> clampedMaxTokens]]])
                      /\ UNCHANGED provOut
    /\ UNCHANGED notProvVars

\* GeminiProvider.generateContent up to its await
GeminiGenerateContent ==
    /\ provPc = "idle"
    /\ \E available \in BOOLEAN, model \in ProviderModels, prompt \in {<<"Test prompt">>},
          temperature \in ProviderTemperatures, maxOutputTokens \in ProviderTokens :
          LET clampedTemperature ==
                  validateAndClampNumber(temperature, MinTemperature, MaxTemperature,
                                         DefaultTemperature)
              clampedMaxTokens ==
                  validateAndClampNumber(maxOutputTokens, MinTokens,
                                         GeminiMaxTokens, GenerateDefaultTokens)
          IN  /\ provCall' = [method |-> "GeminiProvider.generateContent",
                              available |-> available, model |-> model,
                              messages |-> JsString(prompt),
                              temperature |-> temperature,
                              maxTokens |-> maxOutputTokens]
              /\ IF ~available
                 THEN /\ provPc' = "raised"
                      /\ provOut' = Thrown(GeminiNotAvailableMsg)
                      /\ UNCHANGED externalCalls
                 ELSE /\ provPc' = "awaiting"
                      /\ externalCalls' =
                             Append(externalCalls,
                                    [api |-> "models.generateContent",
                                     request |->
                                         [model |-> model,
                                          contents |->
                                              <<[role |-> "user",
                                                 content |-> JsString(prompt)]>>,
                                          config |->
                                              [temperature |-> clampedTemperature,
                                               maxOutputTokens |-> clampedMaxTokens]]])
                      /\ UNCHANGED provOut
    /\ UNCHANGED notProvVars

\* replies of client.chat.completions.create: well formed, content null, no
\* choices, empty choices, a choice without message
OpenAICompletions ==
    {[choices |-> <<[message |-> [content |-> JsString(<<"Test response">>)]]>>],
     [choices |-> <<[message |-> [content |-> Null]]>>],
     [id |-> "test-id"],
     [choices |-> <<>>],
     [choices |-> <<[index |-> 0]>>]}

\* completion.choices[0].message.content
OpenAIContent(completion) ==
    IF "choices" \notin DOMAIN completion THEN Thrown(TypeErrorMsg("0"))
    ELSE IF Len(completion.choices) = 0 THEN Thrown(TypeErrorMsg("message"))
    ELSE IF "message" \notin DOMAIN completion.choices[1]
    THEN Thrown(TypeErrorMsg("content"))
    ELSE Returned(completion.choices[1].message.content)

\* client.chat.completions.create resolves: OpenAIProvider.chatCompletion after
\* its await
OpenAICompletionArrives ==
    /\ provPc = "awaiting"
    /\ provCall.method = "OpenAIProvider.chatCompletion"
    /\ \E completion \in OpenAICompletions :
          /\ provOut' = [OpenAIContent(completion) EXCEPT !.reply = completion]
          /\ provPc' = IF OpenAIContent(completion).kind = "return"
                       THEN "returned" ELSE "raised"
    /\ UNCHANGED <<provCall, externalCalls>>
    /\ UNCHANGED notProvVars

\* replies of client.models.generateContent: with text, without text
GeminiResults ==
    {[text |-> JsString(<<"Gemini response">>)], [candidates |-> <<>>]}

\* result.text
GeminiText(res) ==
    IF "text" \in DOMAIN res THEN Returned(res.text) ELSE Returned(Undefined)

\* client.models.generateContent resolves: chatCompletion and generateContent of
\* GeminiProvider after their await
GeminiResultArrives ==
    /\ provPc = "awaiting"
    /\ provCall.method # "OpenAIProvider.chatCompletion"
    /\ \E res \in GeminiResults : provOut' = [GeminiText(res) EXCEPT !.reply = res]
    /\ provPc' = "returned"
    /\ UNCHANGED <<provCall, externalCalls>>
    /\ UNCHANGED notProvVars

\* the awaited SDK call rejects: the rejection leaves the completion call as it is
ExternalCallFails ==
    /\ provPc = "awaiting"
    /\ \E message \in ErrorMessages : provOut' = Thrown(message)
    /\ provPc' = "raised"
    /\ UNCHANGED <<provCall, externalCalls>>
    /\ UNCHANGED notProvVars

NextProviders ==
    \/ OpenAIChatCompletion
    \/ GeminiChatCompletion
    \/ GeminiGenerateContent
    \/ OpenAICompletionArrives
    \/ GeminiResultArrives
    \/ ExternalCallFails

SpecProviders == InitIdle /\ [][NextProviders]_vars

-----------------------------------------------------------------------------
(* Properties of the provider completion calls *)

OfOpenAI == provCall.method = "OpenAIProvider.chatCompletion"
\* the params of the completion call are valid: its messages pass validateMessages
RequestValid ==
    provCall.method = "GeminiProvider.generateContent"
        \/ validateMessages(provCall.messages).ok
ProviderUnavailableMsgs ==
    {GeminiNotAvailableMsg, GeminiUnavailableMsg, OpenAIUnavailableMsg}

\* C16: a completion call of either adapter made while its isAvailable() is
\* false fails with a provider-unavailable error without issuing any external
\* call; an available adapter given a valid request issues exactly one external
\* call per completion call, also when that call fails.
C16_UnavailableFailsElseOneCall ==
    (provPc # "idle") =>
        /\ ~provCall.available =>
              /\ provPc = "raised"
              /\ provOut.error \in ProviderUnavailableMsgs
              /\ externalCalls = <<>>
        /\ (provCall.available /\ RequestValid) => Len(externalCalls) = 1

\* the value a parameter is to be dispatched with: the default when it is not of
\* numeric type, else the value clamped into [lo, hi]
ExpectedParam(v, lo, hi, def) ==
    IF v.type # "number" THEN def ELSE JsNumber(Clamp(v.num, lo.num, hi.num))

\* C17: the request OpenAIProvider.chatCompletion dispatches for a model name
\* containing 'gpt-5' has temperature exactly 1 whatever the caller passed,
\* carries the clamped token budget as max_completion_tokens and has no
\* max_tokens; for every other model name it carries the clamped caller
\* temperature and the clamped budget as max_tokens and has no
\* max_completion_tokens; the override never produces an error.
C17_Gpt5Override ==
    (provPc # "idle" /\ OfOpenAI /\ RequestValid) =>
        /\ Len(externalCalls) = 1
        /\ LET req == externalCalls[1].request
               budget == ExpectedParam(provCall.maxTokens, MinTokens,
                                       OpenAIMaxTokens, ChatDefaultTokens)
           IN  IF Contains(provCall.model, Gpt5Mark)
               THEN /\ req.temperature = JsNumber(Num(1, 0))
                    /\ DOMAIN req = {"model", "messages", "temperature",
                                     "max_completion_tokens"}
                    /\ req.max_completion_tokens = budget
               ELSE /\ req.temperature =
                           ExpectedParam(provCall.temperature, MinTemperature,
                                         MaxTemperature, ChatDefaultTemperature)
                    /\ DOMAIN req = {"model", "messages", "temperature", "max_tokens"}
                    /\ req.max_tokens = budget

InRange(v, lo, hi) == v.type = "number" /\ LessEq(lo, v) /\ LessEq(v, hi)

\* C18: every request OpenAIProvider.chatCompletion dispatches carries a
\* temperature in [0,2] and a token budget in [1,4000], every request
\* GeminiProvider dispatches a temperature in [0,2] and a token budget in
\* [1,8192]; the budget carried depends on the budget passed alone.
C18_DispatchedInRange ==
    \A i \in DOMAIN externalCalls :
        LET req == externalCalls[i].request IN
        IF OfOpenAI
        THEN LET tokens == IF "max_tokens" \in DOMAIN req THEN req.max_tokens
                           ELSE req.max_completion_tokens
             IN  /\ InRange(req.temperature, MinTemperature, MaxTemperature)
                 /\ InRange(tokens, MinTokens, OpenAIMaxTokens)
                 /\ tokens = ExpectedParam(provCall.maxTokens, MinTokens,
                                           OpenAIMaxTokens, ChatDefaultTokens)
        ELSE /\ InRange(req.config.temperature, MinTemperature, MaxTemperature)
             /\ InRange(req.config.maxOutputTokens, MinTokens, GeminiMaxTokens)
             /\ req.config.maxOutputTokens =
                    ExpectedParam(provCall.maxTokens, MinTokens, GeminiMaxTokens,
                                  IF provCall.method = "GeminiProvider.generateContent"
                                  THEN GenerateDefaultTokens ELSE ChatDefaultTokens)

\* the external reply lacks the expected output field or has no choice
Malformed(reply) ==
    IF OfOpenAI
    THEN \/ "choices" \notin DOMAIN reply
         \/ Len(reply.choices) = 0
         \/ "message" \notin DOMAIN reply.choices[1]
    ELSE "text" \notin DOMAIN reply

\* C20: a completion call of either adapter whose external reply lacks the
\* expected output field or has an empty choice set fails with an error, and a
\* completion call never returns undefined or null as the turn's text.
C20_MalformedReplyFails ==
    /\ (provPc \in {"returned", "raised"} /\ DOMAIN provOut.reply # {}
            /\ Malformed(provOut.reply)) => provOut.kind = "throw"
    /\ (provPc = "returned") => provOut.value.type = "string"

-----------------------------------------------------------------------------
(* src/src/services/wall-bounce.js: several conductWallBounce calls interleaved
   on one service and its two providers *)

\* the calls
RunIds == {1, 2}
MaxConcRounds == 2
RunTopics == [i \in RunIds |-> JsString(<<" ", "topic ", ToString(i), "<NUL>">>)]

\* the variables `let conversation` and `let discussionLog` of call i are kept
\* in one place for all calls
SlotOfService(i) == 1
\* the variables `let conversation` and `let discussionLog` of call i are its own
Slot(i) == i

\* the reply to the k-th request the providers received
ReplyTo(k) == <<"response ">> \o IntStr(k)

\* one outcome of an awaited provider call
Outcome(who, kind, text) == [who |-> who, kind |-> kind, text |-> text]

\* the request the providers receive from call i
Received(i, who, request) == [run |-> i, who |-> who, request |-> request]

InitConc ==
    /\ WallBounceIdle
    /\ NoApplication
    /\ NoProviderCall
    /\ NoToolCall
    /\ \E rounds \in [RunIds -> 1..MaxConcRounds] :
          runs = [i \in RunIds |->
                     [params |-> [topic |-> RunTopics[i], model1 |-> <<"gpt-4">>,
                                  model2 |-> <<"gemini-1.5-pro">>,
                                  rounds |-> JsNumber(Num(rounds[i], 0)),
                                  temperature |-> Undefined],
                      pc |-> "idle", sanitizedTopic |-> <<>>,
                      validatedRounds |-> Unset, validatedTemperature |-> Unset,
                      round |-> 0, conversation |-> <<>>, discussionLog |-> <<>>,
                      result |-> <<>>, received |-> <<>>]]
    /\ adapterLog = <<>>

\* the head of the for loop of call i with round = r, on the calls rs: the body up
\* to the await of participant A's call, or the code after the loop
RunLoopHead(rs, i, r, conv, log) ==
    IF LoopContinues(r, rs[i].validatedRounds)
    THEN [rs EXCEPT ![i].round = r, ![i].pc = "awaitOpenAI",
                    ![Slot(i)].conversation = conv,
                    ![Slot(i)].discussionLog = log \o RoundHeader(r)]
    ELSE LET full == log \o createSummary(rs[i].params.model1, rs[i].params.model2,
                                          rs[i].validatedRounds, rs[i].sanitizedTopic)
         IN  [rs EXCEPT ![i].round = r, ![i].pc = "returned",
                        ![Slot(i)].conversation = conv,
                        ![Slot(i)].discussionLog = full,
                        ![i].result = full]

\* what the providers have received once call i stands at its loop head
LogAtLoopHead(rs, i) ==
    IF rs[i].pc = "awaitOpenAI"
    THEN Append(adapterLog,
                Received(i, "A", OpenAIRequest(rs[i].params.model1,
                                               rs[Slot(i)].conversation,
                                               rs[i].validatedTemperature)))
    ELSE adapterLog

\* call i runs from its entry to its first await, return or throw
RunEnters ==
    \E i \in RunIds :
        /\ runs[i].pc = "idle"
        /\ LET p == runs[i].params
               topic == validateAndSanitizeInput(p.topic, TopicMaxLength)
               entered ==
                   [runs EXCEPT
                       ![i].sanitizedTopic = topic.value,
                       ![i].validatedRounds =
                           validateAndClampNumber(p.rounds, MinRounds, MaxRounds,
                                                  DefaultRounds),
                       ![i].validatedTemperature =
                           validateAndClampNumber(p.temperature, MinTemperature,
                                                  MaxTemperature, DefaultTemperature)]
           IN  IF ~topic.ok
               THEN /\ runs' = [runs EXCEPT ![i].pc = "raised",
                                            ![i].result = topic.error]
                    /\ UNCHANGED adapterLog
               ELSE /\ runs' = RunLoopHead(entered, i, 1,
                                           <<[role |-> "user",
                                              content |->
                                                  createInitialPrompt(topic.value)]>>,
                                           LogHeader(topic.value))
                    /\ adapterLog' = LogAtLoopHead(runs', i)
        /\ UNCHANGED notConcVars

\* the number of the request call i is waiting for
Pending(i) ==
    CHOOSE k \in DOMAIN adapterLog :
        /\ adapterLog[k].run = i
        /\ \A j \in DOMAIN adapterLog : adapterLog[j].run = i => j <= k

\* participant A's call of call i returns: the body up to the await of B's call
RunOpenAIReturns ==
    \E i \in RunIds :
        /\ runs[i].pc = "awaitOpenAI"
        /\ LET openaiResponse == ReplyTo(Pending(i)) IN
           /\ runs' =
                  [runs EXCEPT
                      ![i].pc = "awaitGemini",
                      ![i].received = Append(@, Outcome("A", "return", openaiResponse)),
                      ![Slot(i)].discussionLog =
                          @ \o ModelSection(runs[i].params.model1, openaiResponse),
                      ![Slot(i)].conversation =
                          Append(@, [role |-> "assistant", content |-> openaiResponse])]
           /\ adapterLog' =
                  Append(adapterLog,
                         Received(i, "B",
                                  GeminiRequest(runs[i].params.model2,
                                                createGeminiPrompt(openaiResponse),
                                                runs[i].validatedTemperature)))
        /\ UNCHANGED notConcVars

\* participant B's call of call i returns: the rest of the body and the next loop
\* head
RunGeminiReturns ==
    \E i \in RunIds :
        /\ runs[i].pc = "awaitGemini"
        /\ LET geminiResponse == ReplyTo(Pending(i))
               got == [runs EXCEPT
                          ![i].received =
                              Append(@, Outcome("B", "return", geminiResponse))]
           IN  /\ runs' =
                      RunLoopHead(got, i, runs[i].round + 1,
                                  Append(runs[Slot(i)].conversation,
                                         [role |-> "user",
                                          content |-> NextPrompt(geminiResponse)]),
                                  runs[Slot(i)].discussionLog
                                      \o ModelSection(runs[i].params.model2,
                                                      geminiResponse))
               /\ adapterLog' = LogAtLoopHead(runs', i)
        /\ UNCHANGED notConcVars

\* the awaited call of call i throws: the catch block
RunCallThrows ==
    \E i \in RunIds, message \in ErrorMessages :
        /\ runs[i].pc \in {"awaitOpenAI", "awaitGemini"}
        /\ runs' =
               [runs EXCEPT
                   ![i].pc = "returned",
                   ![i].received =
                       Append(@, Outcome(IF runs[i].pc = "awaitOpenAI" THEN "A" ELSE "B",
                                         "throw", message)),
                   ![i].result = FailureResult(message, runs[Slot(i)].discussionLog)]
        /\ UNCHANGED adapterLog
        /\ UNCHANGED notConcVars

NextConc ==
    \/ RunEnters
    \/ RunOpenAIReturns
    \/ RunGeminiReturns
    \/ RunCallThrows

SpecConc == InitConc /\ [][NextConc]_vars

-----------------------------------------------------------------------------
(* Properties of the interleaved calls *)

\* the responses call i got back from its own requests, in order
OwnResponses(i) ==
    LET returns == SelectSeq(runs[i].received, LAMBDA o : o.kind = "return")
    IN  [k \in DOMAIN returns |-> returns[k].text]

\* the sanitized topic of call i
OwnTopic(i) == Kept(runs[i].params.topic.str)
\* the round count of call i
OwnRounds(i) == runs[i].params.rounds.num \div 10

\* the conversation view of a call run alone on topic after the responses texts
AloneConversation(topic, texts) ==
    LET view[k \in 0..Len(texts)] ==
            IF k = 0 THEN <<[role |-> "user", content |-> createInitialPrompt(topic)]>>
            ELSE IF k % 2 = 1
            THEN Append(view[k - 1], [role |-> "assistant", content |-> texts[k]])
            ELSE Append(view[k - 1], [role |-> "user", content |-> NextPrompt(texts[k])])
    IN  view[Len(texts)]

\* the transcript of a call of n rounds run alone on topic after the responses
\* texts
AloneTranscript(topic, n, texts) ==
    LET log[k \in 0..Len(texts)] ==
            IF k = 0 THEN LogHeader(topic) \o RoundHeader(1)
            ELSE IF k % 2 = 1
            THEN log[k - 1] \o ModelSection(<<"gpt-4">>, texts[k])
            ELSE log[k - 1] \o ModelSection(<<"gemini-1.5-pro">>, texts[k])
                     \o (IF k \div 2 < n THEN RoundHeader(k \div 2 + 1)
                         ELSE createSummary(<<"gpt-4">>, <<"gemini-1.5-pro">>,
                                            JsNumber(Num(n, 0)), topic))
    IN  log[Len(texts)]

\* the result of a call run alone that received the outcomes received
AloneResult(topic, n, received, texts) ==
    IF received # <<>> /\ received[Len(received)].kind = "throw"
    THEN FailureResult(received[Len(received)].text, AloneTranscript(topic, n, texts))
    ELSE AloneTranscript(topic, n, texts)

\* the responses the providers gave to the requests of the calls other than i
OthersResponses(i) ==
    {ReplyTo(k) : k \in {j \in DOMAIN adapterLog : adapterLog[j].run # i}}

\* text t occurs in the conversation view or the transcript of call i
InViewOrTranscript(i, t) ==
    \/ Contains(runs[Slot(i)].discussionLog, t)
    \/ \E k \in DOMAIN runs[Slot(i)].conversation :
          Contains(runs[Slot(i)].conversation[k].content, t)

\* C11: calls of conductWallBounce interleaved on the same service and the same
\* two providers share no mutable state: the conversation view and transcript
\* of each call hold only its own topic and the responses to its own requests,
\* and each call returns the result it would return run alone with the same
\* responses.
C11_CallsShareNothing ==
    \A i \in DOMAIN runs :
        (runs[i].pc # "idle") =>
            /\ runs[Slot(i)].conversation =
                   AloneConversation(OwnTopic(i), OwnResponses(i))
            /\ runs[Slot(i)].discussionLog =
                   AloneTranscript(OwnTopic(i), OwnRounds(i), OwnResponses(i))
            /\ \A j \in DOMAIN runs \ {i} : ~InViewOrTranscript(i, OwnTopic(j))
            /\ \A t \in OthersResponses(i) : ~InViewOrTranscript(i, t)
            /\ (runs[i].pc = "returned") =>
                   runs[i].result =
                       AloneResult(OwnTopic(i), OwnRounds(i), runs[i].received,
                                   OwnResponses(i))

\* both calls have returned, one in full and one after a failure, and their
\* requests reached the providers interleaved
C11_Witness ==
    /\ DOMAIN runs = RunIds
    /\ \A i \in RunIds : runs[i].pc = "returned"
    /\ Contains(runs[1].result, <<SummaryMark>>)
    /\ runs[2].received # <<>>
    /\ runs[2].received[Len(runs[2].received)].kind = "throw"
    /\ Len(OwnResponses(2)) >= 1
    /\ \E a, b, c \in DOMAIN adapterLog :
          /\ a < b /\ b < c
          /\ adapterLog[a].run = 1 /\ adapterLog[b].run = 2 /\ adapterLog[c].run = 1

-----------------------------------------------------------------------------
(* Properties of the views, the prompts and the transcript of one call *)

\* the responses returned so far, in order
Responses ==
    LET returns == SelectSeq(events, LAMBDA ev : ev.e = "return")
    IN  [k \in DOMAIN returns |-> returns[k].text]

\* s is t with the text q inserted at one place
QuotedIn(s, q, t) ==
    \E i \in 0..Len(t) : s = SubSeq(t, 1, i) \o q \o SubSeq(t, i + 1, Len(t))

\* the entries of the view participant A is given in round k
ViewOfA(k) == openaiCalls[k].messages

\* A's view at its call of round k: the seed, then per earlier round A's
\* response and the user entry quoting B's
SeedThenTurns(k) ==
    LET view == ViewOfA(k) IN
    /\ Len(view) = 2 * k - 1
    /\ DOMAIN view[1] = {"role", "content"}
    /\ view[1].role = "user"
    /\ QuotedIn(view[1].content, TopicKept, createInitialPrompt(<<>>))
    /\ \A j \in 1..(k - 1) :
          /\ view[2 * j] = [role |-> "assistant", content |-> ReturnedText("A", j)]
          /\ DOMAIN view[2 * j + 1] = {"role", "content"}
          /\ view[2 * j + 1].role = "user"
          /\ QuotedIn(view[2 * j + 1].content, ReturnedText("B", j), NextPrompt(<<>>))
    /\ view[Len(view)].role = "user"
    /\ k > 1 => IsPrefix(ViewOfA(k - 1), view)

\* C24: the conversation view given to participant A is seeded with exactly one
\* user entry framing the sanitized topic and only ever grows by appending: at
\* A's call in round k it is the seed followed, for each earlier round in order,
\* by A's response (role assistant) and a user entry quoting B's response
\* verbatim, 2k-1 entries ending in a user entry; no entry is modified or
\* removed after it is appended.
C24_ViewOfAGrowsByAppending ==
    /\ [](\A k \in DOMAIN openaiCalls : SeedThenTurns(k))
    /\ [](Entered =>
             /\ Len(conversation) >= 1
             /\ conversation[1].role = "user"
             /\ QuotedIn(conversation[1].content, TopicKept, createInitialPrompt(<<>>))
             /\ \A k \in DOMAIN openaiCalls : IsPrefix(ViewOfA(k), conversation))
    /\ [][IsPrefix(conversation, conversation')]_vars

\* A's call of round 3 has been made
C24_Witness ==
    /\ Len(openaiCalls) = 3
    /\ Len(ViewOfA(3)) = 5
    /\ sanitizedTopic # params.topic.str

\* C25: every call to participant B carries a single freshly built prompt that
\* quotes A's response of the same round verbatim and nothing else from the
\* run: B's round-k request is the fixed frame with A's round-k response
\* inserted, the model, the temperature of the run and the fixed token budget,
\* whatever the topic and the earlier responses were.
C25_PromptOfBQuotesAOnly ==
    \A k \in DOMAIN geminiCalls :
        LET req == geminiCalls[k] IN
        /\ DOMAIN req = {"model", "prompt", "temperature", "maxOutputTokens"}
        /\ req.model = params.model2
        /\ req.temperature = validatedTemperature
        /\ req.maxOutputTokens = WallBounceMaxTokens
        /\ QuotedIn(req.prompt, ReturnedText("A", k), createGeminiPrompt(<<>>))
        /\ ~Contains(req.prompt, TopicKept)
        /\ \A j \in 1..(k - 1) :
              /\ ~Contains(req.prompt, ReturnedText("A", j))
              /\ ~Contains(req.prompt, ReturnedText("B", j))

\* B's call of round 2 has been made, after a first round with responses of its
\* own
C25_Witness ==
    /\ Len(geminiCalls) = 2
    /\ ReturnedText("A", 1) # ReturnedText("A", 2)
    /\ Contains(geminiCalls[2].prompt, ReturnedText("A", 2))

\* the view participant B is given in round k: the contents generateContent
\* builds from the prompt
ViewOfB(k) == <<[role |-> "user", content |-> geminiCalls[k].prompt]>>

\* C26: the engine keeps two content-consistent views: after A's turn in round
\* k, A's content is in A's view and, remapped into B's role vocabulary, in B's
\* view, so that every turn has a correspondingly role-mapped entry in each view
\* that has seen it.
C26_TwoConsistentViews ==
    \A k \in DOMAIN geminiCalls :
        /\ \E i \in DOMAIN conversation :
              conversation[i] = [role |-> "assistant", content |-> ReturnedText("A", k)]
        /\ \E i \in DOMAIN ViewOfB(k) :
              /\ ViewOfB(k)[i].role = "model"
              /\ ViewOfB(k)[i].content = ReturnedText("A", k)

\* first place where sub occurs in s, 0 when it does not
FirstAt(s, sub) ==
    LET at == {i \in 1..(Len(s) - Len(sub) + 1) : SubSeq(s, i, i + Len(sub) - 1) = sub}
    IN  IF at = {} THEN 0 ELSE CHOOSE i \in at : \A j \in at : i <= j

\* the transcript after the responses texts: header, then per round its header,
\* A's section and B's section
SectionsInOrder(texts) ==
    LET log[k \in 0..Len(texts)] ==
            IF k = 0
            THEN <<"# Wall Bounce Discussion: ">> \o TopicKept \o <<"\n\n">>
                     \o (IF RoundsAdmitted >= 1 THEN <<"## Round ", "1", "\n\n">> ELSE <<>>)
            ELSE IF k % 2 = 1
            THEN log[k - 1] \o ModelSection(params.model1, texts[k])
            ELSE log[k - 1] \o ModelSection(params.model2, texts[k])
                     \o (IF k \div 2 < RoundsAdmitted
                         THEN <<"## Round ", ToString(k \div 2 + 1), "\n\n">>
                         ELSE <<>>)
    IN  log[Len(texts)]

\* C28: the transcript is append-only and ordered: each new value extends the
\* previous one as a prefix; its sections are the header, then for each round
\* ascending the round header, A's section and B's section, then on success the
\* summary footer; the partial result returned on failure holds the transcript
\* accumulated so far unchanged, together with the failure section.
C28_TranscriptAppendOnly ==
    /\ [][IsPrefix(discussionLog, discussionLog')]_vars
    /\ [](Entered =>
             LET body == SectionsInOrder(Responses) IN
             IF pc = "returned" /\ NoThrow
             THEN /\ IsPrefix(body, discussionLog)
                  /\ FirstAt(discussionLog, <<SummaryMark>>) = Len(body) + 1
                  /\ result = discussionLog
             ELSE /\ discussionLog = body
                  /\ ~HasSummary(discussionLog)
                  /\ pc = "returned" =>
                        /\ result[1] = FailureMark
                        /\ \A i \in Throws : Contains(result, events[i].text)
                        /\ SubSeq(result, Len(result) - Len(body) + 1, Len(result)) = body)

\* a run that failed in round 2, after three responses
C28_Witness ==
    /\ pc = "returned"
    /\ Len(Responses) = 3
    /\ FirstAt(result, <<"## Round ", "1", "\n\n">>)
           < FirstAt(result, <<"## Round ", "2", "\n\n">>)
    /\ ~NoThrow

\* C29: preconditions are checked before parameter normalization and in a fixed
\* order: with A's provider unavailable the raised error names A whatever B's
\* availability and the topic; with only B's provider unavailable it names B
\* even if the topic is invalid; a topic-validation error is raised only when
\* both providers are available.
C29_PreconditionOrder ==
    (pc # "idle") =>
        /\ ~openaiAvailable => pc = "raised" /\ result = OpenAIUnavailableMsg
        /\ (openaiAvailable /\ ~geminiAvailable) =>
               pc = "raised" /\ result = GeminiUnavailableMsg
        /\ (pc = "raised" /\ result \notin {OpenAIUnavailableMsg, GeminiUnavailableMsg}) =>
               /\ openaiAvailable /\ geminiAvailable
               /\ result \in {InvalidInputMsg, EmptyAfterSanitizationMsg,
                              TooLongMsg(TopicMaxLength)}
        /\ pc = "raised" => validatedRounds = Unset /\ validatedTemperature = Unset

\* both providers unavailable and the topic invalid: the error names A
C29_Witness ==
    /\ pc = "raised"
    /\ ~openaiAvailable
    /\ ~geminiAvailable
    /\ ~TopicIsText
    /\ result = OpenAIUnavailableMsg

\* conductWallBounce has returned or raised
Terminated == pc \in {"returned", "raised"}

\* C30: provided every adapter call eventually returns or throws, every
\* conductWallBounce call eventually terminates, after at most
\* 2 x clamp(rounds, 1, 10) adapter calls, and never loops or waits after a call
\* has failed.
C30_Terminates ==
    /\ (pc # "idle") ~> Terminated
    /\ [](10 * (Len(openaiCalls) + Len(geminiCalls)) <=
              2 * (IF params.rounds.type = "number"
                   THEN ClampRounds(params.rounds.num) ELSE DefaultRounds.num))
    /\ [](~NoThrow => pc = "returned")
    /\ [][Terminated => UNCHANGED wbVars]_vars

\* a run of ten rounds has terminated after twenty adapter calls
C30_Witness ==
    /\ Terminated
    /\ Len(openaiCalls) + Len(geminiCalls) = 20
    /\ NoThrow

-----------------------------------------------------------------------------
(* src/unnamed/part_003 (ToolHandlers) and src/src/server.js: one tool-call
   request *)

\* a || b
Or(a, b) == IF Falsy(a) THEN b ELSE a

\* { content: [{ type: 'text', text }] }
TextResult(text) == [content |-> <<[type |-> "text", text |-> text]>>]

\* the switch of handleToolCall with the two chat tools exchanged
HandlerOfChatsSwapped(toolName) ==
    CASE toolName = "chat_with_gpt" -> "handleChatWithGemini"
      [] toolName = "chat_with_gemini" -> "handleChatWithGPT"
      [] toolName = "wall_bounce_chat" -> "handleWallBounceChat"
      [] toolName = "list_models" -> "handleListModels"
      [] OTHER -> "default"

\* the switch of handleToolCall
HandlerOf(toolName) ==
    CASE toolName = "chat_with_gpt" -> "handleChatWithGPT"
      [] toolName = "chat_with_gemini" -> "handleChatWithGemini"
      [] toolName = "wall_bounce_chat" -> "handleWallBounceChat"
      [] toolName = "list_models" -> "handleListModels"
      [] OTHER -> "default"

\* the catch of the request handler dropping the error's message
ServerResultWithoutMessage(outcome) ==
    IF outcome.kind = "throw" THEN TextResult(<<"Error: ">>) ELSE outcome.value

\* the try/catch of the request handler around handleToolCall
ServerResult(outcome) ==
    IF outcome.kind = "throw" THEN TextResult(<<"Error: ">> \o outcome.error)
    ELSE outcome.value

\* handleToolCall settles with outcome, and the request handler with it
Settle(outcome) ==
    /\ toolOut' = [handler |-> outcome, server |-> ServerResult(outcome)]
    /\ toolPc' = "done"

\* the awaited call settles with kind ("return" or "throw") and text
Settled(kind, text) ==
    toolCalls' = [toolCalls EXCEPT ![Len(toolCalls)].settled =
                                       Outcome(toolCalls[Len(toolCalls)].target,
                                               kind, text)]

\* a handler awaits target called with request
Await(target, request) ==
    /\ toolCalls' = Append(toolCalls, [target |-> target, params |-> request,
                                       settled |-> <<>>])
    /\ toolPc' = "awaiting"
    /\ UNCHANGED toolOut

\* the values of process.env.OPENAI_MODEL and process.env.GEMINI_MODEL
EnvModels == {Undefined, JsString(<<"env-model">>)}

\* a request for the tool toolName arrives with arguments args
Arrives(toolName, args) ==
    \E env \in EnvModels, available \in BOOLEAN :
        toolReq' = [name |-> toolName, args |-> args, env |-> env,
                    openaiAvailable |-> available]

ChatArgs ==
    [model : {Undefined, JsString(<<"gpt-4">>)},
     messages : {JsArray(<<[role |-> "user", content |-> JsString(<<"Hello">>)]>>)},
     temperature : {Undefined, JsNumber(Num(0, 0)), JsNumber(Num(0, 7))},
     max_tokens : {Undefined, JsNumber(Num(1000, 0))}]

\* handleChatWithGPT / handleChatWithGemini to their await
CallChat ==
    /\ toolPc = "idle"
    /\ \E toolName \in {"chat_with_gpt", "chat_with_gemini"},
          args \in ChatArgs \cup {Undefined} :
          /\ Arrives(toolName, args)
          /\ LET model ==
                     Or(args.model,
                        Or(toolReq'.env,
                           IF HandlerOf(toolName) = "handleChatWithGPT"
                           THEN JsString(<<"gpt-4">>)
                           ELSE JsString(<<"gemini-2.0-flash-001">>)))
                 temperature == Or(args.temperature, ChatDefaultTemperature)
                 tokens == Or(args.max_tokens, ChatDefaultTokens)
             IN  IF "model" \notin DOMAIN args
                 THEN Settle(Thrown(TypeErrorMsg("model"))) /\ UNCHANGED toolCalls
                 ELSE IF HandlerOf(toolName) = "handleChatWithGPT"
                 THEN Await("openaiProvider.chatCompletion",
                            [model |-> model, messages |-> args.messages,
                             temperature |-> temperature, maxTokens |-> tokens])
                 ELSE Await("geminiProvider.chatCompletion",
                            [model |-> model, messages |-> args.messages,
                             temperature |-> temperature, maxOutputTokens |-> tokens])
    /\ UNCHANGED notToolVars

WallBounceArgs ==
    [topic : {Undefined, JsString(<<"AI Ethics">>)},
     model1 : {Undefined, JsString(<<"gpt-4">>), JsString(<<>>)},
     model2 : {Undefined, JsString(<<"gemini-1.5-pro">>)},
     rounds : {Undefined, JsNumber(Num(0, 0)), JsNumber(Num(5, 0)),
               JsNumber(Num(20, 0))},
     temperature : {Undefined, JsNumber(Num(0, 0)), JsNumber(Num(0, 8)),
                    JsNumber(Num(1, 5))}]

\* handleWallBounceChat to its await
CallWallBounceChat ==
    /\ toolPc = "idle"
    /\ \E args \in WallBounceArgs :
          /\ Arrives("wall_bounce_chat", args)
          /\ HandlerOf("wall_bounce_chat") = "handleWallBounceChat"
          /\ Await("wallBounceService.conductWallBounce",
                   [topic |-> args.topic,
                    model1 |-> Or(args.model1, Or(toolReq'.env, JsString(<<"gpt-4">>))),
                    model2 |-> Or(args.model2,
                                  Or(toolReq'.env, JsString(<<"gemini-2.0-flash-001">>))),
                    rounds |-> Or(args.rounds, DefaultRounds),
                    temperature |-> Or(args.temperature, DefaultTemperature)])
    /\ UNCHANGED notToolVars

\* this.availableModels of GeminiProvider, each as a line of the list
GeminiModelList ==
    <<"- gemini-2.0-flash-001", "\n", "- gemini-1.5-pro-latest", "\n",
      "- gemini-1.5-pro-002", "\n", "- gemini-1.5-flash-001", "\n",
      "- gemini-1.5-flash-002">>

\* the text of handleListModels given the lines of the OpenAI models
ModelsText(openaiModelList) ==
    <<"**Available OpenAI GPT models:**\n">> \o openaiModelList
        \o <<"\n\n**Available Google Gemini models:**\n">> \o GeminiModelList

\* handleListModels to its await, or to its end when OpenAI is not available
CallListModels ==
    /\ toolPc = "idle"
    /\ Arrives("list_models", <<>>)
    /\ HandlerOf("list_models") = "handleListModels"
    /\ IF toolReq'.openaiAvailable
       THEN Await("openaiProvider.listModels", <<>>)
       ELSE /\ Settle(Returned(TextResult(ModelsText(<<>>))))
            /\ UNCHANGED toolCalls
    /\ UNCHANGED notToolVars

\* the default case of handleToolCall
CallUnknownTool ==
    /\ toolPc = "idle"
    /\ \E toolName \in {"unknown_tool", "chat", ""}, args \in ChatArgs :
          /\ Arrives(toolName, args)
          /\ HandlerOf(toolName) = "default"
          /\ Settle(Thrown(<<"Unknown tool: ", toolName>>))
    /\ UNCHANGED toolCalls
    /\ UNCHANGED notToolVars

\* the awaited call returns response: the rest of the handler
AwaitedReturns ==
    /\ toolPc = "awaiting"
    /\ \E response \in {<<"response">>, <<"# Wall Bounce Discussion: ", "x">>} :
          LET target == toolCalls[Len(toolCalls)].target
              request == toolCalls[Len(toolCalls)].params
          IN  /\ Settle(Returned(TextResult(
                  IF target = "wallBounceService.conductWallBounce" THEN response
                  ELSE IF target = "openaiProvider.listModels"
                  THEN ModelsText(<<"- ">> \o response)
                  ELSE <<"**Model:** ">> \o request.model.str
                           \o <<"\n**Response:** ">> \o response)))
              /\ Settled("return", response)
    /\ UNCHANGED toolReq
    /\ UNCHANGED notToolVars

\* the awaited call throws: a validation error, an unavailable participant or a
\* provider error
AwaitedThrows ==
    /\ toolPc = "awaiting"
    /\ \E message \in ErrorMessages \cup {MessageContentMsg, InvalidInputMsg,
                                          OpenAIUnavailableMsg, GeminiNotAvailableMsg} :
          Settle(Thrown(message)) /\ Settled("throw", message)
    /\ UNCHANGED toolReq
    /\ UNCHANGED notToolVars

NextTools ==
    \/ CallChat
    \/ CallWallBounceChat
    \/ CallListModels
    \/ CallUnknownTool
    \/ AwaitedReturns
    \/ AwaitedThrows

SpecTools == InitIdle /\ [][NextTools]_vars

-----------------------------------------------------------------------------
(* Properties of the tool-call request *)

\* the providers' and the service's operations a handler may call
TargetsOf(toolName) ==
    CASE toolName = "chat_with_gpt" -> {"openaiProvider.chatCompletion"}
      [] toolName = "chat_with_gemini" -> {"geminiProvider.chatCompletion"}
      [] toolName = "wall_bounce_chat" -> {"wallBounceService.conductWallBounce"}
      [] toolName = "list_models" -> {"openaiProvider.listModels"}
      [] OTHER -> {}

C22_SuppliedArgumentsForwarded ==
    (toolPc # "idle" /\ toolReq.name = "wall_bounce_chat") =>
        LET args == toolReq.args
            sent == toolCalls[1].params
            Supplied(f) == args[f] # Undefined
            envOr(d) == IF toolReq.env # Undefined THEN toolReq.env ELSE d
        IN  /\ DOMAIN sent = {"topic", "model1", "model2", "rounds", "temperature"}
            /\ sent.topic = args.topic
            /\ sent.model1 = IF Supplied("model1") THEN args.model1
                             ELSE envOr(JsString(<<"gpt-4">>))
            /\ sent.model2 = IF Supplied("model2") THEN args.model2
                             ELSE envOr(JsString(<<"gemini-2.0-flash-001">>))
            /\ sent.rounds = IF Supplied("rounds") THEN args.rounds
                             ELSE JsNumber(Num(3, 0))
            /\ sent.temperature = IF Supplied("temperature") THEN args.temperature
                                  ELSE JsNumber(Num(0, 8))

\* C23: the request handler never raises to the protocol layer: a successful
\* handler result is returned as is, and every error raised below it (unknown
\* tool, validation error, participant unavailable, provider error) becomes a
\* result {content: [{type: 'text', text: 'Error: <message>'}]} carrying the
\* error's message.
C23_ErrorsBecomeResults ==
    (toolPc = "done") =>
        /\ DOMAIN toolOut.server = {"content"}
        /\ Len(toolOut.server.content) = 1
        /\ toolOut.server.content[1].type = "text"
        /\ IF toolOut.handler.kind = "return"
           THEN toolOut.server = toolOut.handler.value
           ELSE LET message ==
                        IF toolCalls # <<>> THEN toolCalls[1].settled.text
                        ELSE IF TargetsOf(toolReq.name) = {}
                        THEN <<"Unknown tool: ", toolReq.name>>
                        ELSE toolOut.handler.error
                IN  /\ message # <<>>
                    /\ toolOut.server.content[1].text = <<"Error: ">> \o message

\* a wall_bounce_chat request whose service call raised a validation error
C23_Witness ==
    /\ toolPc = "done"
    /\ toolReq.name = "wall_bounce_chat"
    /\ toolCalls[1].settled.kind = "throw"
    /\ toolOut.server = TextResult(<<"Error: ">> \o InvalidInputMsg)

-----------------------------------------------------------------------------
(* conductWallBounce driven through OpenAIProvider.chatCompletion and
   GeminiProvider.generateContent, every external call succeeding *)

MaxThroughRounds == 2
ThroughRounds == { JsNumber(Num(k, 0)) : k \in 1..MaxThroughRounds }

\* a string longer than validateMessages allows
LongReply == [i \in 1..(DefaultMaxLength \div LongRunLen) + 1 |-> LongRun]

\* the strings the external models answer with
ExternalReplies == { <<"response">>, <<>>, <<" ">>, <<"<NUL>">>, LongReply }

\* the conversation as the messages argument of chatCompletion
MessagesOf(conv) ==
    JsArray([i \in DOMAIN conv |->
                 [role |-> conv[i].role, content |-> JsString(conv[i].content)]])

InitThrough ==
    /\ Init
    /\ params.rounds \in ThroughRounds

\* the head of the for loop with round = r, where participant A's call runs
\* chatCompletion up to its await: validateMessages on the conversation, then
\* the request; a throw of validateMessages is caught by the catch block
LoopHeadThrough(r, conv, log, topic, vRounds, vTemperature, history) ==
    /\ round' = r
    /\ conversation' = conv
    /\ IF LoopContinues(r, vRounds)
       THEN LET validatedMessages == validateMessages(MessagesOf(conv))
                called == Append(history, Event("call", "A", r, <<>>))
            IN  /\ discussionLog' = log \o RoundHeader(r)
                /\ IF validatedMessages.ok
                   THEN /\ openaiCalls' =
                               Append(openaiCalls,
                                      OpenAIRequest(params.model1, conv, vTemperature))
                        /\ events' = called
                        /\ pc' = "awaitOpenAI"
                        /\ UNCHANGED result
                   ELSE /\ result' =
                               FailureResult(validatedMessages.error, discussionLog')
                        /\ events' =
                               Append(called,
                                      Event("throw", "A", r, validatedMessages.error))
                        /\ pc' = "returned"
                        /\ UNCHANGED openaiCalls
       ELSE /\ discussionLog' =
                   log \o createSummary(params.model1, params.model2, vRounds, topic)
            /\ result' = discussionLog'
            /\ events' = history
            /\ pc' = "returned"
            /\ UNCHANGED openaiCalls
    /\ UNCHANGED geminiCalls

\* conductWallBounce from its entry to the await inside chatCompletion, or to
\* its return or throw
ConductThroughProviders ==
    /\ pc = "idle"
    /\ IF UnavailableError # <<>> THEN Raise(UnavailableError)
       ELSE LET topic == validateAndSanitizeInput(params.topic, TopicMaxLength) IN
            IF ~topic.ok THEN Raise(topic.error)
            ELSE LET vRounds ==
                         validateAndClampNumber(params.rounds, MinRounds, MaxRounds,
                                                DefaultRounds)
                     vTemperature ==
                         validateAndClampNumber(params.temperature, MinTemperature,
                                                MaxTemperature, DefaultTemperature)
                     conv == <<[role |-> "user",
                                content |-> createInitialPrompt(topic.value)]>>
                 IN  /\ sanitizedTopic' = topic.value
                     /\ validatedRounds' = vRounds
                     /\ validatedTemperature' = vTemperature
                     /\ LoopHeadThrough(1, conv, LogHeader(topic.value), topic.value,
                                        vRounds, vTemperature, events)
    /\ UNCHANGED <<params, openaiAvailable, geminiAvailable>>
    /\ UNCHANGED notWbVars

\* chat.completions.create answers: chatCompletion returns the content, and the
\* body runs up to the await inside generateContent, which validates nothing
ChatCompletionReturns ==
    /\ pc = "awaitOpenAI"
    /\ \E openaiResponse \in ExternalReplies :
          /\ discussionLog' =
                 discussionLog \o ModelSection(params.model1, openaiResponse)
          /\ conversation' =
                 Append(conversation, [role |-> "assistant", content |-> openaiResponse])
          /\ geminiCalls' =
                 Append(geminiCalls,
                        GeminiRequest(params.model2, createGeminiPrompt(openaiResponse),
                                      validatedTemperature))
          /\ events' = events \o <<Event("return", "A", round, openaiResponse),
                                    Event("call", "B", round, <<>>)>>
    /\ pc' = "awaitGemini"
    /\ UNCHANGED <<params, openaiAvailable, geminiAvailable, sanitizedTopic,
                   validatedRounds, validatedTemperature, round, result, openaiCalls>>
    /\ UNCHANGED notWbVars

\* models.generateContent answers: generateContent returns the text, and the
\* rest of the body and the next loop head run
GenerateContentReturns ==
    /\ pc = "awaitGemini"
    /\ \E geminiResponse \in ExternalReplies :
          LoopHeadThrough(round + 1,
                          Append(conversation,
                                 [role |-> "user",
                                  content |-> NextPrompt(geminiResponse)]),
                          discussionLog \o ModelSection(params.model2, geminiResponse),
                          sanitizedTopic, validatedRounds, validatedTemperature,
                          Append(events, Event("return", "B", round, geminiResponse)))
    /\ UNCHANGED <<params, openaiAvailable, geminiAvailable, sanitizedTopic,
                   validatedRounds, validatedTemperature>>
    /\ UNCHANGED notWbVars

NextThrough ==
    \/ ConductThroughProviders
    \/ ChatCompletionReturns
    \/ GenerateContentReturns

SpecThrough == InitThrough /\ [][NextThrough]_vars

\* C27: a run driven through the real OpenAIProvider and GeminiProvider in
\* which every external call succeeds completes all rounds and ends with the
\* summary, for every string the external models may return (an empty string,
\* a whitespace-only or control-character-only string, a very long string).
C27_EveryResponseThreaded ==
    (pc = "returned") =>
        /\ HasSummary(result)
        /\ ~HasFailureMark(result)
        /\ NoThrow
        /\ Len(openaiCalls) = validatedRounds.num \div 10
        /\ Len(geminiCalls) = validatedRounds.num \div 10

====
